---- MODULE Spec2Model ----
(***************************************************************************)
(* Model of the batchers of torchness: torchness/batcher.py and its        *)
(* sibling torchness/comoneural/batcher.py.                                *)
(*                                                                         *)
(* A batcher object is the record self, its fields named as the Python    *)
(* attributes.  A dataset (Dict[str,NPL]) is a function from axis name to  *)
(* a sequence of samples; index arrays hold 0-based indices as in numpy.   *)
(***************************************************************************)
EXTENDS Integers, Sequences, FiniteSets, TLC

VARIABLES
    args,             \* the constructor call: class, module and arguments
    self,             \* the batcher object (its attributes)
    main_pc,          \* where the consumer (main thread) is
    ret,              \* what the last call of the consumer returned or raised
    out,              \* history: the batches get_batch() returned, in order
    prev_out,         \* history: the batches of the instance built before
    np_random_state,  \* numpy's global random state (np.random.seed)
    n_built,          \* history: number of instances built from args
    n_resize,         \* history: number of set_batch_size calls made
    n_get_batch,      \* history: number of get_batch calls started on the instance
    n_taken,          \* history: number of chunks taken from the loader or the workers
    n_process,        \* history: number of process calls given zeroes, on a ZeroesProcessor
    loader            \* the loader thread of a FilesBatcher: where it is, its file

vars == <<args, self, main_pc, ret, out, prev_out, np_random_state, n_built,
          n_resize, n_get_batch, n_taken, n_process, loader>>

-----------------------------------------------------------------------------
(* Bounds of the model *)

MaxLen == 3         \* samples in a dataset handed to a batcher: 1..MaxLen
MaxBatch == 3       \* batch sizes: 1..MaxBatch
MaxPulls == 4       \* get_batch() calls made on one instance
MaxFiles == 2       \* files handed to a FilesBatcher: 0..MaxFiles
MaxWorkers == 2     \* n_workers of a FilesBatcherMP: 1..MaxWorkers

-----------------------------------------------------------------------------
(* Python values *)

None == <<>>
Some(v) == <<v>>
Min(a, b) == IF a < b THEN a ELSE b
Range(f) == {f[x] : x \in DOMAIN f}

\* a[lo:hi] of Python, for 0 <= lo and 0 <= hi: clamped to the length
Slice(a, lo, hi) == SubSeq(a, lo + 1, Min(hi, Len(a)))

\* a[ix] of numpy, ix an array of 0-based indices
Take(a, ix) == [j \in 1..Len(ix) |-> a[ix[j] + 1]]

\* np.arange(n)
arange(n) == [j \in 1..n |-> j - 1]

\* as DictSet, the dict replaced by one holding k alone
DictSet_alone(d, k, v) == [x \in {k} |-> v]

\* d[k] = v on a dict
DictSet(d, k, v) == [x \in (DOMAIN d) \cup {k} |-> IF x = k THEN v ELSE d[x]]

KeyOrder == <<"input", "labels">>

\* sorted(list(d.keys()))
SortedKeys(d) == SelectSeq(KeyOrder, LAMBDA k : k \in DOMAIN d)

\* len(data[keys[0]]) of a dataset
DataLen(data) == Len(data[SortedKeys(data)[1]])

\* a dataset with samples first..first+n-1 on "input" and their labels
MakeData(first, n) ==
    [k \in {"input", "labels"} |->
        [j \in 1..n |-> IF k = "input" THEN first + j - 1 ELSE 100 + first + j - 1]]

-----------------------------------------------------------------------------
(* numpy's Generator: a deterministic stream of draws decided by the seed. *)
(* The state is a number; every draw advances it.                          *)

default_rng(seed) == (seed * 37 + 11) % 251

rng_next(r) == (r * 33 + 17) % 251

Swap(x, i, j) == [x EXCEPT ![i] = x[j], ![j] = x[i]]

\* Generator.shuffle(x): Fisher-Yates from the last position down
RECURSIVE ShuffleFrom(_, _, _)
ShuffleFrom(x, r, i) ==
    IF i < 2 THEN [x |-> x, rng |-> r]
    ELSE LET r2 == rng_next(r)
             j == (r2 % i) + 1
         IN  ShuffleFrom(Swap(x, i, j), r2, i - 1)

rng_shuffle(r, x) == ShuffleFrom(x, r, Len(x))

\* Generator.permutation(n)
rng_permutation(r, n) == rng_shuffle(r, arange(n))

\* Generator.choice(a, size, replace=False): size distinct values of 0..a-1,
\* ValueError when size > a
rng_choice(r, a, size) ==
    IF size > a THEN [exc |-> "ValueError", x |-> <<>>, rng |-> r]
    ELSE LET p == rng_shuffle(rng_next(r), arange(a))
         IN  [exc |-> "", x |-> Slice(p.x, 0, size), rng |-> p.rng]

-----------------------------------------------------------------------------
(* The two modules that define the batchers *)

Modules == {"comoneural", "torchness"}

\* BATCHING_TYPES of each module
BATCHING_TYPES(module) ==
    IF module = "comoneural" THEN {"base", "random", "random_cov"}
    ELSE {"base", "random"}

default_TS_name == "__TS__"

\* as Concatenable, every array type taken for concatenable
Concatenable_always(chunk) == TRUE

\* as Concatenable, no array type recognised
Concatenable_never(chunk) == FALSE

\* type(chunk[key]) is ARR, or is TNS: every array of one run has the type
\* args.arr_type ("ndarray", "Tensor", or "other" for any other array-like)
Concatenable(chunk) == args.arr_type \in {"ndarray", "Tensor"}

\* split_into_batches(data, size), size > 0
RECURSIVE SplitFrom(_, _, _)
SplitFrom(data, size, counter) ==
    IF counter * size < DataLen(data)
    THEN <<[k \in DOMAIN data |-> Slice(data[k], counter * size, (counter + 1) * size)]>>
         \o SplitFrom(data, size, counter + 1)
    ELSE <<>>

\* as split_into_batches, the counter starting at 1
split_into_batches_from1(data, size) == SplitFrom(data, size, 1)

split_into_batches(data, size) == SplitFrom(data, size, 0)

\* as data_split, the second set cut from the wrong end
data_split_overlap(data, split_factor, seed) ==
    LET rng == default_rng(seed)
        d_len == DataLen(data)
        indices == rng_permutation(rng, d_len).x
        splitB_len == (d_len * split_factor.num) \div split_factor.den
        splitA_len == d_len - splitB_len
        indicesA == Slice(indices, 0, splitA_len)
        indicesB == Slice(indices, 0, splitB_len)
    IN  [A |-> [k \in DOMAIN data |-> Take(data[k], indicesA)],
         B |-> [k \in DOMAIN data |-> Take(data[k], indicesB)]]

\* data_split(data, split_factor, seed); split_factor is the ratio num/den,
\* a float for which d_len * split_factor is exact (0.5, 1.0)
data_split(data, split_factor, seed) ==
    LET rng == default_rng(seed)
        d_len == DataLen(data)
        indices == rng_permutation(rng, d_len).x
        splitB_len == (d_len * split_factor.num) \div split_factor.den
        splitA_len == d_len - splitB_len
        indicesA == Slice(indices, 0, splitA_len)
        indicesB == Slice(indices, splitA_len, d_len)
    IN  [A |-> [k \in DOMAIN data |-> Take(data[k], indicesA)],
         B |-> [k \in DOMAIN data |-> Take(data[k], indicesB)]]

-----------------------------------------------------------------------------
(* BaseBatcher *)

\* the index map generated for a new chunk, by batching type
new_ixmap(s, chunk_next_len) ==
    CASE s.btype = "base" ->
            [exc |-> "", x |-> arange(chunk_next_len), rng |-> s.rng]
      [] s.btype = "random" /\ s.module = "comoneural" ->
            rng_choice(s.rng, chunk_next_len, s._batch_size)
      [] s.btype = "random" /\ s.module = "torchness" ->
            rng_choice(s.rng, chunk_next_len, chunk_next_len)
      [] s.btype = "random_cov" ->
            [exc |-> ""] @@ rng_shuffle(s.rng, arange(chunk_next_len))

\* as ixmap_left, the leftover cut one entry late
ixmap_left_late(s) == Slice(s._ixmap, s._ixmap_pointer + 1, Len(s._ixmap))

\* the leftover of the index map: self._ixmap[self._ixmap_pointer:]
ixmap_left(s) == Slice(s._ixmap, s._ixmap_pointer, Len(s._ixmap))

\* as refill_pointer, the pointer left where it was
refill_pointer_kept(s) == s._ixmap_pointer

\* self._ixmap_pointer = 0 of a refill
refill_pointer(s) == 0

\* _get_next_chunk_and_extend_ixmap, from the chunk load_data_TR_chunk() gave
extend_ixmap(s, chunk_next) ==
    LET keys == IF s._keys = <<>> THEN SortedKeys(chunk_next) ELSE s._keys
        chunk_next_len == Len(chunk_next[keys[1]])
        drawn == new_ixmap(s, chunk_next_len)
        _ixmap_left == ixmap_left(s)
        _ixmap_left_size == Len(_ixmap_left)
        conc == _ixmap_left_size > 0 /\ Concatenable(chunk_next)
        chunk == IF conc
                 THEN [k \in DOMAIN chunk_next |->
                          Take(s._data_TR[k], _ixmap_left) \o chunk_next[k]]
                 ELSE chunk_next
        _ixmap_new == IF conc
                      THEN arange(_ixmap_left_size)
                           \o [j \in 1..Len(drawn.x) |-> drawn.x[j] + _ixmap_left_size]
                      ELSE drawn.x
    IN  IF drawn.exc # ""
        THEN [exc |-> drawn.exc, s |-> [s EXCEPT !._keys = keys]]
        ELSE [exc |-> "",
              s |-> [s EXCEPT !._keys = keys,
                              !.rng = drawn.rng,
                              !._ixmap = _ixmap_new,
                              !._ixmap_pointer = refill_pointer(s),
                              !._data_TR = chunk,
                              !._data_TR_len = Len(chunk[keys[1]])]]

\* as set_batch_size, the batches split before kept
set_batch_size_cache_kept(s, bs) == [s EXCEPT !._batch_size = bs]

\* set_batch_size(bs), of comoneural
set_batch_size(s, bs) == [s EXCEPT !._batch_size = bs, !._TS_batches = << >>]

\* as get_batch_seed, the sampler seeded from numpy's global state
get_batch_seed_global(s) ==
    [s EXCEPT !.rng = default_rng(np_random_state), !.seed_counter = @ + 1]

\* as get_batch_seed, the counter moved on only by a pull that fetches a chunk
get_batch_seed_on_fetch(s) ==
    [s EXCEPT !.rng = default_rng(s.seed_counter),
              !.seed_counter = IF s._ixmap_pointer + s._batch_size > Len(s._ixmap)
                               THEN @ + 1 ELSE @]

\* get_batch(): the sampler is seeded again and the counter moves on
get_batch_seed(s) ==
    [s EXCEPT !.rng = default_rng(s.seed_counter), !.seed_counter = @ + 1]

\* get_batch(): the index map is too short for this pull
needs_chunk(s) == s._ixmap_pointer + s._batch_size > Len(s._ixmap)

\* as get_batch_take, the pointer left where it was
get_batch_take_stuck(s) ==
    LET indexes == Slice(s._ixmap, s._ixmap_pointer, s._ixmap_pointer + s._batch_size)
    IN  [exc |-> "",
         s |-> s,
         val |-> [k \in {s._keys[j] : j \in 1..Len(s._keys)} |-> Take(s._data_TR[k], indexes)]]

\* get_batch(): the batch cut from the index map
get_batch_take(s) ==
    LET indexes == Slice(s._ixmap, s._ixmap_pointer, s._ixmap_pointer + s._batch_size)
    IN  [exc |-> "",
         s |-> [s EXCEPT !._ixmap_pointer = @ + s._batch_size],
         val |-> [k \in {s._keys[j] : j \in 1..Len(s._keys)} |-> Take(s._data_TR[k], indexes)]]

\* as DataBatcher_load_data_TR_chunk, the dict of the data itself returned
DataBatcher_load_data_TR_chunk_same(s) ==
    [s |-> s, data |-> s._data_TR_chunk, fresh |-> FALSE]

\* DataBatcher.load_data_TR_chunk(): a new dict over the arrays of the data;
\* fresh: the dict returned is not the dict self._data_TR_chunk
DataBatcher_load_data_TR_chunk(s) ==
    [s |-> s, data |-> [k \in DOMAIN s._data_TR_chunk |-> s._data_TR_chunk[k]],
     fresh |-> TRUE]

\* the chunk_builder of the model: file number f holds f samples of its own
chunk_builder(file) == MakeData(10 * file + 1, file)

\* as FilesBatcher_load_data_TR_chunk, the next 'load' not requested
FilesBatcher_load_data_TR_chunk_noput(s) ==
    [s |-> [s EXCEPT !._data_chunks = Tail(@)], data |-> Head(s._data_chunks),
     fresh |-> TRUE]

\* FilesBatcher.load_data_TR_chunk() when a chunk is there: the chunk is
\* taken and the next one requested
FilesBatcher_load_data_TR_chunk(s) ==
    [s |-> [s EXCEPT !._data_chunks = Tail(@),
                     !.q_to_loader = Append(@, "load")],
     data |-> Head(s._data_chunks), fresh |-> TRUE]

\* as loader_rotate, the file left at the head of the list
loader_rotate_none(s) == s

\* FilesBatcher._loader_loop, msg == 'load': the file list is rotated
loader_rotate(s) ==
    [s EXCEPT !._data_files = Append(Tail(@), Head(@))]

\* FilesBatcherMP._put_next_task_to_ompr(): the first file goes to the end of
\* the list and to the runner
_put_next_task_to_ompr(s) ==
    [s EXCEPT !._data_files = Append(Tail(@), Head(@)),
              !.ompr.tasks = Append(@, Head(s._data_files))]

RECURSIVE PutTasks(_, _)
PutTasks(s, n) == IF n = 0 THEN s ELSE PutTasks(_put_next_task_to_ompr(s), n - 1)

\* OMPRunner(ordered_results=False): the task at position i is finished by
\* its worker and its result queued behind the results of the tasks
\* finished before
ompr_finish(s, i) ==
    [s EXCEPT !.ompr.tasks = SubSeq(@, 1, i - 1) \o SubSeq(@, i + 1, Len(@)),
              !.ompr.results = Append(@, chunk_builder(s.ompr.tasks[i]))]

\* FilesBatcherMP.load_data_TR_chunk() when a result is there
FilesBatcherMP_load_data_TR_chunk(s) ==
    [s |-> _put_next_task_to_ompr([s EXCEPT !.ompr.results = Tail(@)]),
     data |-> Head(s.ompr.results), fresh |-> TRUE]

\* load_data_TR_chunk() would return without waiting
chunk_ready(s) ==
    CASE s.cls = "DataBatcher" -> TRUE
      [] s.cls = "FilesBatcher" -> s._data_chunks # << >>
      [] s.cls = "FilesBatcherMP" -> s.ompr.results # << >>

\* load_data_TR_chunk() of the object's class, once it does not wait
load_data_TR_chunk(s) ==
    CASE s.cls = "DataBatcher" -> DataBatcher_load_data_TR_chunk(s)
      [] s.cls = "FilesBatcher" -> FilesBatcher_load_data_TR_chunk(s)
      [] s.cls = "FilesBatcherMP" -> FilesBatcherMP_load_data_TR_chunk(s)

\* chunk_next[k] = ... and self._data_TR = chunk_next: the dict that
\* load_data_TR_chunk() returned is written and kept; the writes land in
\* self._data_TR_chunk when it is that dict
chunk_next_written(r, fresh) ==
    IF fresh \/ r.exc # "" THEN r
    ELSE [r EXCEPT !.s._data_TR_chunk = r.s._data_TR]

\* _get_next_chunk_and_extend_ixmap()
_get_next_chunk_and_extend_ixmap(s) ==
    LET loaded == load_data_TR_chunk(s)
    IN  chunk_next_written(extend_ixmap(loaded.s, loaded.data), loaded.fresh)

\* get_batch() after the seeding: {exc, s, val}
get_batch_rest(seeded) ==
    LET filled == IF needs_chunk(seeded)
                  THEN _get_next_chunk_and_extend_ixmap(seeded)
                  ELSE [exc |-> "", s |-> seeded]
    IN  IF filled.exc # ""
        THEN [exc |-> filled.exc, s |-> filled.s, val |-> None]
        ELSE get_batch_take(filled.s)

\* get_batch(): {exc, s, val}
get_batch(s) == get_batch_rest(get_batch_seed(s))

\* get_TS_batches(name): {exc, s, val, split}; name is None or Some(a name),
\* split is Some(the set split_into_batches was called for) or None
get_TS_batches(s, name) ==
    IF s._data_TS = None
    THEN [exc |-> "AttributeError", s |-> s, val |-> None, split |-> None]
    ELSE
    LET data_TS == s._data_TS[1]
        nm == IF name = None THEN default_TS_name ELSE name[1]
    IN  IF name = None /\ DOMAIN data_TS # {default_TS_name}
        THEN [exc |-> "BatcherException", s |-> s, val |-> None, split |-> None]
        ELSE IF nm \notin DOMAIN data_TS
        THEN [exc |-> "BatcherException", s |-> s, val |-> None, split |-> None]
        ELSE IF nm \notin DOMAIN s._TS_batches
        THEN LET batches == split_into_batches(data_TS[nm],
                                s._batch_size * s._batch_size_TS_mul)
             IN  [exc |-> "",
                  s |-> [s EXCEPT !._TS_batches = DictSet(@, nm, batches)],
                  val |-> batches, split |-> Some(nm)]
        ELSE [exc |-> "", s |-> s, val |-> s._TS_batches[nm], split |-> None]

\* get_data_size()
get_data_size(s) == <<s._data_TR_len, s._data_TS_len>>

RECURSIVE SumLens(_, _, _)
SumLens(d, names, key) ==
    IF names = {} THEN 0
    ELSE LET n == CHOOSE x \in names : TRUE
         IN  Len(d[n][key]) + SumLens(d, names \ {n}, key)

\* as known_batching_type, the types of comoneural known in both modules
known_batching_type_lax(a) == a.batching_type \in BATCHING_TYPES("comoneural")

\* BaseBatcher.__init__: batching_type in BATCHING_TYPES
known_batching_type(a) == a.batching_type \in BATCHING_TYPES(a.module)

\* BaseBatcher.__init__ up to the load of the first chunk; a data_TS argument
\* is None or Some([named |-> type(first value) is dict, d |-> the dict])
BaseBatcher_init_head(s, a) ==
    LET s1 == s @@ [module |-> a.module,
                    seed_counter |-> a.seed,
                    rng |-> default_rng(a.seed)]
    IN  IF ~known_batching_type(a)
        THEN [exc |-> "BatcherException", s |-> s1]
        ELSE [exc |-> "",
              s |-> s1 @@ [btype |-> a.batching_type,
                           _TS_batches |-> << >>,
                           _batch_size |-> a.batch_size,
                           _batch_size_TS_mul |-> a.batch_size_TS_mul,
                           _ixmap |-> << >>,
                           _ixmap_pointer |-> 0,
                           _data_TR |-> << >>,
                           _keys |-> << >>,
                           _data_TR_len |-> None]]

\* BaseBatcher.__init__ from the load of the first chunk on
BaseBatcher_init_tail(s, a) ==
    LET first == _get_next_chunk_and_extend_ixmap(s)
        data_TS == IF a.data_TS = None THEN None
                   ELSE IF DOMAIN a.data_TS[1].d = {} THEN Some(<< >>)
                   ELSE IF ~a.data_TS[1].named
                        THEN Some([n \in {default_TS_name} |-> a.data_TS[1].d])
                        ELSE Some(a.data_TS[1].d)
        data_TS_len == IF data_TS = None \/ data_TS = Some(<< >>) THEN 0
                       ELSE SumLens(data_TS[1], DOMAIN data_TS[1], first.s._keys[1])
    IN  IF first.exc # ""
        THEN first
        ELSE [exc |-> "",
              s |-> first.s @@ [_data_TS |-> data_TS, _data_TS_len |-> data_TS_len]]

\* BaseBatcher.__init__ of a batcher whose first chunk is at hand
BaseBatcher_init(s, a) ==
    LET head == BaseBatcher_init_head(s, a)
    IN  IF head.exc # "" THEN head ELSE BaseBatcher_init_tail(head.s, a)

\* as DataBatcher_init, a given data_TS replaced by the split without a test
DataBatcher_init_untested(a) ==
    LET split == data_split(a.data_TR, a.split_factor, a.seed)
        data_TR == IF a.split_factor.num > 0 THEN split.A ELSE a.data_TR
        kwargs == IF a.split_factor.num > 0
                  THEN [a EXCEPT !.data_TS = Some([named |-> FALSE, d |-> split.B])]
                  ELSE a
    IN  BaseBatcher_init([cls |-> "DataBatcher", _data_TR_chunk |-> data_TR], kwargs)

\* DataBatcher.__init__
DataBatcher_init(a) ==
    IF a.split_factor.num > 0 /\ a.data_TS # None
    THEN [exc |-> "BatcherException", s |-> << >>]
    ELSE LET split == data_split(a.data_TR, a.split_factor, a.seed)
             data_TR == IF a.split_factor.num > 0 THEN split.A ELSE a.data_TR
             kwargs == IF a.split_factor.num > 0
                       THEN [a EXCEPT !.data_TS = Some([named |-> FALSE, d |-> split.B])]
                       ELSE a
         IN  BaseBatcher_init([cls |-> "DataBatcher", _data_TR_chunk |-> data_TR], kwargs)

\* as FilesBatcher_init_start, data_files tested after the thread is started
FilesBatcher_init_start_late(a) ==
    IF a.data_files = << >>
    THEN [exc |-> "BatcherException", started |-> TRUE,
          s |-> [cls |-> "FilesBatcher", _data_files |-> a.data_files,
                 _data_chunks |-> << >>, q_to_loader |-> <<"load">>]]
    ELSE [started |-> TRUE] @@
         BaseBatcher_init_head([cls |-> "FilesBatcher",
                                _data_files |-> a.data_files,
                                _data_chunks |-> << >>,
                                q_to_loader |-> <<"load">>], a)

\* FilesBatcher.__init__ up to the first wait for a chunk: the loader thread
\* is started (started) unless data_files is empty
FilesBatcher_init_start(a) ==
    IF a.data_files = << >>
    THEN [exc |-> "BatcherException", started |-> FALSE,
          s |-> [cls |-> "FilesBatcher", _data_files |-> a.data_files]]
    ELSE [started |-> TRUE] @@
         BaseBatcher_init_head([cls |-> "FilesBatcher",
                                _data_files |-> a.data_files,
                                _data_chunks |-> << >>,
                                q_to_loader |-> <<"load">>], a)

\* FilesBatcherMP.__init__ up to the first wait for a chunk
FilesBatcherMP_init_start(a) ==
    IF a.data_files = << >>
    THEN [exc |-> "BatcherException", started |-> FALSE,
          s |-> [cls |-> "FilesBatcherMP", _data_files |-> a.data_files]]
    ELSE [started |-> FALSE] @@
         BaseBatcher_init_head(
             PutTasks([cls |-> "FilesBatcherMP",
                       _data_files |-> a.data_files,
                       ompr |-> [tasks |-> << >>, results |-> << >>]],
                      a.n_workers), a)

-----------------------------------------------------------------------------
(* The constructor calls of the model *)

Seeds == {123, 124}

TSNames == {"test_A", "test_B"}

\* the held-out data given: none, one unnamed set, two named sets
DataTSArgs ==
    { None,
      Some([named |-> FALSE, d |-> MakeData(51, MaxLen)]),
      Some([named |-> TRUE,
            d |-> [n \in TSNames |-> IF n = "test_A" THEN MakeData(61, MaxLen)
                                                       ELSE MakeData(71, 1)]]) }

\* split_factor: 0.0, 0.5, 1.0
SplitFactors == { [num |-> 0, den |-> 1], [num |-> 1, den |-> 2], [num |-> 1, den |-> 1] }

\* batching_type: the names of BATCHING_TYPES and a name that is in neither
BatchingTypeArgs == {"base", "random", "random_cov", "other"}

DataBatcherCall(m, n, sf, ts, bs, bt, sd, at) ==
    [cls |-> "DataBatcher", module |-> m, data_TR |-> MakeData(1, n),
     split_factor |-> sf, data_TS |-> ts, batch_size |-> bs,
     batch_size_TS_mul |-> 2, batching_type |-> bt, seed |-> sd, arr_type |-> at]

\* DataBatcher(data_TR, ...): every seed and array type without held-out
\* data, and every way of giving held-out data with the default seed
DataBatcherArgs ==
    { DataBatcherCall(m, n, [num |-> 0, den |-> 1], None, bs, bt, sd, at) :
        m \in Modules, n \in 1..MaxLen, bs \in 1..MaxBatch,
        bt \in BatchingTypeArgs, sd \in Seeds,
        at \in {"ndarray", "other"} }
    \cup
    { DataBatcherCall(m, n, sf, ts, bs, bt, 123, "ndarray") :
        m \in Modules, n \in 1..MaxLen, sf \in SplitFactors, ts \in DataTSArgs,
        bs \in 1..MaxBatch, bt \in BatchingTypeArgs }

\* what the consumer holds after a constructor call
Built(made) ==
    /\ self = made.s
    /\ main_pc = IF made.exc = "" THEN "idle" ELSE "failed"
    /\ ret = [op |-> "__init__", arg |-> None, exc |-> made.exc, val |-> None, split |-> None, waited |-> FALSE]

\* nothing has been called yet
NoHistory ==
    /\ out = << >>
    /\ prev_out = << >>
    /\ np_random_state = 0
    /\ n_built = 1
    /\ n_resize = 0
    /\ n_get_batch = 0
    /\ n_taken = 0
    /\ n_process = 0

Init ==
    /\ args \in DataBatcherArgs
    /\ Built(DataBatcher_init(args))
    /\ NoHistory
    /\ loader = [pc |-> "none", file |-> 0]

-----------------------------------------------------------------------------
(* The calls of the consumer *)

\* ret.split: Some(the held-out set split_into_batches was called for) or None;
\* ret.waited: the call waited for a chunk
Returned(op, arg, r) ==
    ret' = [op |-> op, arg |-> arg, exc |-> r.exc, val |-> r.val,
            split |-> IF op = "get_TS_batches" THEN r.split ELSE None,
            waited |-> main_pc # "idle"]

\* get_batch(), up to its return or to its wait for a chunk
GetBatch ==
    /\ main_pc = "idle"
    /\ n_get_batch < MaxPulls
    /\ n_get_batch' = n_get_batch + 1
    /\ LET seeded == get_batch_seed(self)
       IN  IF needs_chunk(seeded) /\ ~chunk_ready(seeded)
           THEN /\ self' = seeded
                /\ main_pc' = "batch_load"
                /\ UNCHANGED <<ret, out, n_taken>>
           ELSE \E r \in {get_batch_rest(seeded)} :
                    /\ self' = r.s
                    /\ main_pc' = "idle"
                    /\ Returned("get_batch", None, r)
                    /\ out' = IF r.exc = "" THEN Append(out, r.val) ELSE out
                    /\ n_taken' = IF needs_chunk(seeded) /\ self.cls # "DataBatcher"
                                  THEN n_taken + 1 ELSE n_taken
    /\ UNCHANGED <<args, prev_out, np_random_state, n_built, n_resize, n_process, loader>>

SetBatchSize(bs) ==
    /\ main_pc = "idle"
    /\ self.module = "comoneural"
    /\ n_built = 1
    /\ n_resize < 1
    /\ self' = set_batch_size(self, bs)
    /\ ret' = [op |-> "set_batch_size", arg |-> Some(bs), exc |-> "", val |-> None,
               split |-> None, waited |-> FALSE]
    /\ n_resize' = n_resize + 1
    /\ UNCHANGED <<args, main_pc, out, prev_out, np_random_state, n_built, n_process, n_get_batch, n_taken, loader>>

GetTSBatches(name) ==
    /\ main_pc = "idle"
    /\ LET r == get_TS_batches(self, name)
       IN  /\ self' = r.s
           /\ Returned("get_TS_batches", name, r)
    /\ UNCHANGED <<args, main_pc, out, prev_out, np_random_state, n_built, n_resize, n_process, n_get_batch, n_taken, loader>>

GetDataSize ==
    /\ main_pc = "idle"
    /\ ret' = [op |-> "get_data_size", arg |-> None, exc |-> "",
               val |-> get_data_size(self), split |-> None, waited |-> FALSE]
    /\ UNCHANGED <<args, self, main_pc, out, prev_out, np_random_state, n_built, n_resize, n_process, n_get_batch, n_taken, loader>>

\* np.random.seed(x) somewhere in the program
NpRandomSeed(x) ==
    /\ np_random_state # x
    /\ np_random_state' = x
    /\ UNCHANGED <<args, self, main_pc, ret, out, prev_out, n_built, n_resize, n_process, n_get_batch, n_taken, loader>>

\* a second DataBatcher built from the same arguments, once the first has
\* made its pulls
Rebuild ==
    /\ main_pc = "idle"
    /\ n_built = 1
    /\ n_resize = 0
    /\ n_get_batch = MaxPulls
    /\ n_get_batch' = 0
    /\ LET made == DataBatcher_init(args)
       IN  /\ self' = made.s
           /\ main_pc' = IF made.exc = "" THEN "idle" ELSE "failed"
           /\ ret' = [op |-> "__init__", arg |-> None, exc |-> made.exc, val |-> None, split |-> None, waited |-> FALSE]
    /\ prev_out' = out
    /\ out' = << >>
    /\ n_built' = 2
    /\ UNCHANGED <<args, np_random_state, n_resize, n_process, n_taken, loader>>

\* one DataBatcher and the calls made on it
Next ==
    \/ GetBatch
    \/ \E bs \in 1..MaxBatch : SetBatchSize(bs)
    \/ \E name \in {None} \cup {Some(n) : n \in TSNames \cup {"test_C"}} : GetTSBatches(name)
    \/ GetDataSize

Spec == Init /\ [][Next]_vars

\* two DataBatchers built one after the other from the same arguments, the
\* global random state of numpy changing at any time (test_seed)
NextSeed ==
    \/ GetBatch
    \/ \E x \in 0..1 : NpRandomSeed(x)
    \/ Rebuild

SpecSeed == Init /\ [][NextSeed]_vars

-----------------------------------------------------------------------------
(* FilesBatcher and FilesBatcherMP: the consumer and the loaders *)

\* FilesBatcher(data_files, chunk_builder, ...): the files are 1..n, and
\* chunk_builder raises on the files of bad_files
FilesBatcherArgs ==
    { [cls |-> "FilesBatcher", module |-> m, data_files |-> [f \in 1..n |-> f],
       bad_files |-> bad, data_TS |-> None, batch_size |-> bs,
       batch_size_TS_mul |-> 2, batching_type |-> bt, seed |-> 123,
       arr_type |-> "ndarray"] :
        m \in Modules, n \in 0..MaxFiles, bad \in SUBSET (1..MaxFiles),
        bs \in 1..MaxBatch, bt \in BatchingTypeArgs }

\* FilesBatcherMP(data_files, chunk_builder, n_workers, ...)
FilesBatcherMPArgs ==
    { [cls |-> "FilesBatcherMP", module |-> "torchness",
       data_files |-> [f \in 1..n |-> f], bad_files |-> {}, n_workers |-> w,
       data_TS |-> None, batch_size |-> bs, batch_size_TS_mul |-> 2,
       batching_type |-> bt, seed |-> 123, arr_type |-> "ndarray"] :
        n \in 0..MaxFiles, w \in 1..MaxWorkers, bs \in 1..MaxBatch,
        bt \in BatchingTypeArgs }

\* the constructor has come to its first wait for a chunk, or has raised
InitFiles ==
    /\ args \in FilesBatcherArgs \cup FilesBatcherMPArgs
    /\ args.bad_files \subseteq Range(args.data_files)
    /\ LET made == IF args.cls = "FilesBatcher" THEN FilesBatcher_init_start(args)
                   ELSE FilesBatcherMP_init_start(args)
       IN  /\ self = made.s
           /\ main_pc = IF made.exc = "" THEN "init_load" ELSE "failed"
           /\ ret = [op |-> "__init__", arg |-> None, exc |-> made.exc, val |-> None,
                     split |-> None, waited |-> FALSE]
           /\ loader = [pc |-> IF made.started THEN "get" ELSE "none", file |-> 0]
    /\ NoHistory

\* load_data_TR_chunk() finds a chunk and returns it to the constructor or to
\* get_batch(), which go on to their end
LoadChunk ==
    /\ main_pc \in {"init_load", "batch_load"}
    /\ chunk_ready(self)
    /\ n_taken' = n_taken + 1
    /\ IF main_pc = "init_load"
       THEN \E made \in {BaseBatcher_init_tail(self, args)} :
                /\ self' = made.s
                /\ main_pc' = IF made.exc = "" THEN "idle" ELSE "failed"
                /\ ret' = [op |-> "__init__", arg |-> None, exc |-> made.exc,
                           val |-> None, split |-> None, waited |-> TRUE]
                /\ out' = out
       ELSE \E r \in {get_batch_rest(self)} :
                /\ self' = r.s
                /\ main_pc' = "idle"
                /\ Returned("get_batch", None, r)
                /\ out' = IF r.exc = "" THEN Append(out, r.val) ELSE out
    /\ UNCHANGED <<args, prev_out, np_random_state, n_built, n_resize, n_process, n_get_batch, loader>>

\* _loader_loop: a message is taken from the queue; on 'load' the file list
\* is rotated and chunk_builder called, on 'exit' the loop is left
LoaderGet ==
    /\ loader.pc = "get"
    /\ self.q_to_loader # << >>
    /\ LET msg == Head(self.q_to_loader)
           taken == [self EXCEPT !.q_to_loader = Tail(@)]
       IN  IF msg = "load"
           THEN /\ self' = loader_rotate(taken)
                /\ loader' = [pc |-> "build", file |-> Head(self._data_files)]
           ELSE /\ self' = taken
                /\ loader' = [pc |-> "exited", file |-> 0]
    /\ UNCHANGED <<args, main_pc, ret, out, prev_out, np_random_state, n_built, n_resize, n_process, n_get_batch, n_taken>>

\* _loader_loop: chunk_builder returns and the chunk is appended
LoaderBuilt ==
    /\ loader.pc = "build"
    /\ loader.file \notin args.bad_files
    /\ self' = [self EXCEPT !._data_chunks = Append(@, chunk_builder(loader.file))]
    /\ loader' = [pc |-> "get", file |-> 0]
    /\ UNCHANGED <<args, main_pc, ret, out, prev_out, np_random_state, n_built, n_resize, n_process, n_get_batch, n_taken>>

\* _loader_loop: chunk_builder raises; nothing in the thread catches it and
\* the thread ends
LoaderRaise ==
    /\ loader.pc = "build"
    /\ loader.file \in args.bad_files
    /\ loader' = [pc |-> "crashed", file |-> loader.file]
    /\ UNCHANGED <<args, self, main_pc, ret, out, prev_out, np_random_state, n_built,
                   n_resize, n_process, n_get_batch, n_taken>>

\* a worker of the runner finishes its task
WorkerFinish(i) ==
    /\ "ompr" \in DOMAIN self
    /\ i \in 1..Len(self.ompr.tasks)
    /\ self' = ompr_finish(self, i)
    /\ UNCHANGED <<args, main_pc, ret, out, prev_out, np_random_state, n_built, n_resize, n_process, n_get_batch, n_taken,
                   loader>>

\* FilesBatcher.exit(): 'exit' is queued and the thread joined
Exit ==
    /\ self.cls = "FilesBatcher"
    /\ main_pc = "idle"
    /\ self' = [self EXCEPT !.q_to_loader = Append(@, "exit")]
    /\ main_pc' = "join"
    /\ UNCHANGED <<args, ret, out, prev_out, np_random_state, n_built, n_resize, n_process, n_get_batch, n_taken, loader>>

\* FilesBatcher.exit(): the thread has ended and join() returns
ExitJoined ==
    /\ main_pc = "join"
    /\ loader.pc \in {"exited", "crashed"}
    /\ main_pc' = "closed"
    /\ ret' = [op |-> "exit", arg |-> None, exc |-> "", val |-> None, split |-> None, waited |-> FALSE]
    /\ UNCHANGED <<args, self, out, prev_out, np_random_state, n_built, n_resize, n_process, n_get_batch, n_taken, loader>>

NextFiles ==
    \/ GetBatch
    \/ LoadChunk
    \/ LoaderGet
    \/ LoaderBuilt
    \/ LoaderRaise
    \/ \E i \in 1..MaxWorkers : WorkerFinish(i)
    \/ Exit
    \/ ExitJoined

SpecFiles == InitFiles /\ [][NextFiles]_vars

\* the loader thread and the workers run when they can, and the consumer
\* polls for its chunk again and again
FairSpecFiles ==
    /\ SpecFiles
    /\ WF_vars(LoaderGet)
    /\ WF_vars(LoaderBuilt)
    /\ WF_vars(LoaderRaise)
    /\ WF_vars(\E i \in 1..MaxWorkers : WorkerFinish(i))
    /\ WF_vars(LoadChunk)
    /\ WF_vars(ExitJoined)

\* a FilesBatcher whose chunk_builder never raises, with its loader thread
\* and its consumer scheduled as in FairSpecFiles
InitFilesBatcher ==
    /\ InitFiles
    /\ args.cls = "FilesBatcher"
    /\ args.bad_files = {}

NextFilesBatcher ==
    \/ GetBatch
    \/ LoadChunk
    \/ LoaderGet
    \/ LoaderBuilt
    \/ Exit
    \/ ExitJoined

FairSpecFilesBatcher ==
    /\ InitFilesBatcher /\ [][NextFilesBatcher]_vars
    /\ WF_vars(LoaderGet)
    /\ WF_vars(LoaderBuilt)
    /\ WF_vars(LoadChunk)
    /\ WF_vars(ExitJoined)

\* the constructor call of any of the three batchers, up to its return or
\* its raise, and the loaders it has started
InitConstruct == Init \/ InitFiles

NextConstruct ==
    \/ LoadChunk
    \/ LoaderGet
    \/ LoaderBuilt
    \/ LoaderRaise
    \/ \E i \in 1..MaxWorkers : WorkerFinish(i)

SpecConstruct == InitConstruct /\ [][NextConstruct]_vars

-----------------------------------------------------------------------------
(* Properties *)


RECURSIVE Flatten(_)
Flatten(seqs) == IF seqs = << >> THEN << >> ELSE Head(seqs) \o Flatten(Tail(seqs))

\* the samples delivered so far on an axis, in the order of delivery
Stream(key) == Flatten([i \in 1..Len(out) |-> out[i][key]])

\* the batching type that covers the whole chunk at random
FullCoverage ==
    \/ args.module = "comoneural" /\ args.batching_type = "random_cov"
    \/ args.module = "torchness" /\ args.batching_type = "random"

IsArray == args.arr_type \in {"ndarray", "Tensor"}

\* C1: for a fixed seed, the second DataBatcher built from the same data,
\* batch size and batching type ('random' or 'random_cov') returns at every
\* pull index the batch the first one returned, whatever numpy's global
\* random state was in between.
C1_SameSeedSameBatches ==
    (n_built = 2 /\ args.batching_type \in {"random", "random_cov"})
        => \A i \in 1..Min(Len(out), Len(prev_out)) : out[i] = prev_out[i]

C1_Witness ==
    /\ n_built = 2
    /\ args.batching_type = "random_cov"
    /\ np_random_state = 1
    /\ Len(prev_out) = MaxPulls
    /\ Len(out) = MaxPulls
    /\ args.batch_size = 2
    /\ DataLen(args.data_TR) = 3
    /\ out[1] # out[3]

\* C2: with the full-coverage batching type on a DataBatcher over arrays of N
\* samples, the stream of delivered samples cut into consecutive blocks of N
\* holds no sample twice in a block (so a whole block holds each sample
\* exactly once), for every batch size.
C2_FullCoverage ==
    LET N == DataLen(self._data_TR_chunk)
        st == Stream("input")
    IN  (main_pc = "idle" /\ FullCoverage /\ IsArray /\ N > 0)
        => /\ Range(st) \subseteq Range(self._data_TR_chunk["input"])
           /\ \A i, j \in 1..Len(st) :
                (i < j /\ (i - 1) \div N = (j - 1) \div N) => st[i] # st[j]

C2_Witness ==
    /\ main_pc = "idle" /\ FullCoverage /\ IsArray
    /\ DataLen(self._data_TR_chunk) = 3
    /\ self._batch_size = 2
    /\ n_resize = 0
    /\ Len(Stream("input")) >= 6

\* C3: every batch get_batch() returns holds exactly batch_size samples on
\* every axis.
C3_BatchSized ==
    (ret.op = "get_batch" /\ ret.exc = "")
        => \A k \in DOMAIN ret.val : Len(ret.val[k]) = self._batch_size

\* C4: a pull that finds the index map too short, the chunks being arrays,
\* delivers the whole leftover of the old chunk first and in its index-map
\* order; after it the index map points at each leftover sample once, in the
\* part already delivered, and the rest of the map points into the new chunk.
C4_LeftoverCarried ==
    [][ (/\ ret'.op = "get_batch" /\ ret'.exc = ""
         /\ self'.seed_counter = self.seed_counter + 1
         /\ needs_chunk(self) /\ IsArray)
        => LET left == ixmap_left(self)
               L == Len(left)
               fresh == load_data_TR_chunk(self).data
           IN  /\ L < self._batch_size
               /\ self'._ixmap_pointer >= L
               /\ \A k \in DOMAIN ret'.val :
                    /\ Slice(ret'.val[k], 0, L) = Take(self._data_TR[k], left)
                    /\ self'._data_TR[k] = Take(self._data_TR[k], left) \o fresh[k]
               /\ \A j \in 1..Len(self'._ixmap) :
                    IF j <= L THEN self'._ixmap[j] = j - 1
                    ELSE self'._ixmap[j] >= L /\ self'._ixmap[j] < L + DataLen(fresh)
      ]_vars

\* a pull has just carried a leftover over: the index map is longer than
\* the chunk
C4_Witness ==
    /\ ret.op = "get_batch" /\ ret.exc = "" /\ IsArray
    /\ args.batching_type # "base"
    /\ self._ixmap_pointer = self._batch_size
    /\ Len(self._ixmap) = DataLen(self._data_TR_chunk) + 2
    /\ self._data_TR_len = DataLen(self._data_TR_chunk) + 2

NameOf(arg) == IF arg = None THEN default_TS_name ELSE arg[1]

\* C6: get_TS_batches(name) returns the held-out set of n samples cut in
\* order into batches of s = batch_size * batch_size_TS_mul samples: the
\* batches put together give the set, every batch but the last has s samples,
\* none is empty, and there are ceil(n / s) of them.
C6_TSBatches ==
    (ret.op = "get_TS_batches" /\ ret.exc = "")
        => LET held == self._data_TS[1][NameOf(ret.arg)]
               n == DataLen(held)
               sz == self._batch_size * self._batch_size_TS_mul
               batches == ret.val
           IN  /\ Len(batches) = (n + sz - 1) \div sz
               /\ \A k \in DOMAIN held :
                    Flatten([i \in 1..Len(batches) |-> batches[i][k]]) = held[k]
               /\ \A i \in 1..Len(batches) : \A k \in DOMAIN held :
                    /\ Len(batches[i][k]) >= 1
                    /\ i < Len(batches) => Len(batches[i][k]) = sz

C6_Witness ==
    /\ ret.op = "get_TS_batches" /\ ret.exc = ""
    /\ ret.arg = Some("test_A")
    /\ self._batch_size = 1
    /\ Len(ret.val) = 2
    /\ Len(ret.val[2]["input"]) = 1
    /\ Len(out) > 0

\* C7: get_TS_batches(name) splits the held-out set on the first call for
\* that name only; until set_batch_size is called, every later call for the
\* name is served from the cache and returns the same batches, whatever
\* get_batch() calls and calls for other names come in between.
C7_TSBatchesCached ==
    [][ /\ ret'.op # "set_batch_size"
            => \A n \in DOMAIN self._TS_batches :
                    /\ n \in DOMAIN self'._TS_batches
                    /\ self'._TS_batches[n] = self._TS_batches[n]
        /\ (ret'.op = "get_TS_batches" /\ ret'.exc = "")
            => LET n == NameOf(ret'.arg)
               IN  /\ ret'.val = self'._TS_batches[n]
                   /\ n \in DOMAIN self._TS_batches
                        => ret'.split = None /\ ret'.val = self._TS_batches[n]
                   /\ n \notin DOMAIN self._TS_batches => ret'.split = Some(n)
      ]_vars

\* a call served from the cache, after pulls and a call for another name
C7_Witness ==
    /\ ret.op = "get_TS_batches" /\ ret.exc = ""
    /\ ret.arg = Some("test_A")
    /\ ret.split = None
    /\ DOMAIN self._TS_batches = {"test_A", "test_B"}
    /\ Len(out) >= 2

\* the loaders finish all that was asked of them, in the order it was asked
RECURSIVE InOrder(_)
InOrder(s) ==
    CASE s.cls = "FilesBatcher" /\ s.q_to_loader # << >> ->
            LET taken == [s EXCEPT !.q_to_loader = Tail(@)]
            IN  InOrder([loader_rotate(taken) EXCEPT
                            !._data_chunks = Append(@, chunk_builder(Head(s._data_files)))])
      [] s.cls = "FilesBatcherMP" /\ s.ompr.tasks # << >> -> InOrder(ompr_finish(s, 1))
      [] OTHER -> s

\* the batches of k pulls when every chunk is finished in the order asked
RECURSIVE InOrderPulls(_, _)
InOrderPulls(s, k) ==
    IF k = 0 THEN << >>
    ELSE LET r == get_batch(InOrder(s))
         IN  (IF r.exc = "" THEN <<r.val>> ELSE << >>) \o InOrderPulls(r.s, k - 1)

InOrderBatches(a, k) ==
    LET start == IF a.cls = "FilesBatcher" THEN FilesBatcher_init_start(a)
                 ELSE FilesBatcherMP_init_start(a)
        made == BaseBatcher_init_tail(InOrder(start.s), a)
    IN  IF start.exc # "" \/ made.exc # "" THEN << >> ELSE InOrderPulls(made.s, k)

\* C8: for FilesBatcher and FilesBatcherMP with a chunk_builder that is a
\* function of the file, the batches get_batch() returns are decided by the
\* seed, the file list and the pull count: they are the batches of the run
\* in which every chunk is finished in the order asked, whatever the
\* interleaving of loaders and consumer.
C8_BatchesDecidedBySeedAndFiles ==
    (main_pc \in {"idle", "batch_load"} /\ args.bad_files = {})
        => out = SubSeq(InOrderBatches(args, MaxPulls), 1, Len(out))

\* the part of C8 that holds: one loader thread, or one worker, finishes the
\* chunks in the order asked
C8_OneLoaderAtATime ==
    (args.cls = "FilesBatcher" \/ args.n_workers = 1)
        => C8_BatchesDecidedBySeedAndFiles

Waiting == main_pc \in {"init_load", "batch_load"}

\* C9: if chunk_builder raises in the loader thread of a FilesBatcher, the
\* construction or the get_batch() that waits for that chunk ends with an
\* error.
C9_LoaderExceptionReachesConsumer ==
    (loader.pc = "crashed" /\ Waiting /\ ~chunk_ready(self))
        ~> (~Waiting /\ ret.exc # "")

\* C10: a FilesBatcher whose chunk_builder never raises: a call that waits
\* for a chunk with none buffered has its 'load' request queued or being
\* served, and every get_batch() that waits returns.
C10_PullsReturn ==
    /\ [](  (args.cls = "FilesBatcher" /\ args.bad_files = {} /\ Waiting
             /\ ~chunk_ready(self))
            => ("load" \in Range(self.q_to_loader) \/ loader.pc = "build") )
    /\ (args.cls = "FilesBatcher" /\ args.bad_files = {} /\ main_pc = "batch_load")
            ~> (main_pc = "idle" /\ ret.op = "get_batch" /\ ret.waited)

\* a get_batch() that waited for its chunk has returned a batch
C10_Witness ==
    /\ args.cls = "FilesBatcher" /\ args.bad_files = {}
    /\ main_pc = "idle"
    /\ ret.op = "get_batch" /\ ret.waited /\ ret.exc = ""
    /\ Len(out) >= 2

\* C11: once exit() is called the loader thread ends and exit() returns; the
\* thread ends only after exit() was called; when it has taken 'exit' the
\* 'load' queued before it has been served (its chunk is buffered, nothing
\* is left in the queue); and after that the thread loads nothing more.
C11_ExitJoinsLoader ==
    /\ (main_pc = "join") ~> (main_pc = "closed")
    /\ [](loader.pc \in {"exited", "crashed"} => main_pc \in {"join", "closed"})
    /\ [](loader.pc = "exited"
            => /\ self.q_to_loader = << >>
               /\ Len(self._data_chunks) = 1)
    /\ [][loader.pc = "exited"
            => /\ loader' = loader
               /\ self'._data_chunks = self._data_chunks
               /\ self'._data_files = self._data_files]_vars

\* the runs of C11 in which no chunk_builder call raises: there the thread
\* ends by 'exit' only
C11_WhenChunkBuilderReturns ==
    [](args.bad_files = {} => loader.pc # "crashed") /\
    [](args.bad_files = {} /\ loader.pc = "exited"
            => /\ main_pc \in {"join", "closed"}
               /\ self.q_to_loader = << >>
               /\ Len(self._data_chunks) = 1)

\* the 'load' requests the loader thread has not taken yet
PendingLoads(s) == Len(SelectSeq(s.q_to_loader, LAMBDA msg : msg = "load"))

\* 'load' requests pending, loads in progress and chunks buffered
Prefetched ==
    PendingLoads(self) + (IF loader.pc = "build" THEN 1 ELSE 0) + Len(self._data_chunks)

BeforeExit == main_pc \in {"init_load", "idle", "batch_load"}

\* C12: for a FilesBatcher, in every state before exit(), the 'load'
\* requests pending plus the loads in progress plus the chunks buffered are
\* exactly 1; for a FilesBatcherMP the tasks submitted and not yet consumed
\* are exactly n_workers whenever load_data_TR_chunk() is not taking a result.
C12_PrefetchBounded ==
    /\ (args.cls = "FilesBatcher" /\ BeforeExit) => Prefetched = 1
    /\ (args.cls = "FilesBatcherMP" /\ BeforeExit)
            => Len(self.ompr.tasks) + Len(self.ompr.results) = args.n_workers

\* the states of C12 in which the loader thread is alive
C12_WhileLoaderAlive ==
    (loader.pc = "crashed" /\ BeforeExit) \/ C12_PrefetchBounded

\* get_TS_batches(name) asks for a held-out set that is not there: no
\* held-out data at all, no name given for named sets, or an unknown name
MissingTS(s, name) ==
    \/ s._data_TS = None
    \/ name = None /\ DOMAIN s._data_TS[1] # {default_TS_name}
    \/ name # None /\ name[1] \notin DOMAIN s._data_TS[1]

\* C13: a get_TS_batches(name) call for a held-out set that is missing (no
\* held-out data at all, name None with named sets, unknown name) raises
\* BatcherException and leaves the cache of held-out batches unchanged.
C13_MissingTSRaises ==
    [][ (ret'.op = "get_TS_batches" /\ MissingTS(self, ret'.arg))
            => /\ ret'.exc = "BatcherException"
               /\ self'._TS_batches = self._TS_batches ]_vars

\* what the calls of C13 do: AttributeError when no held-out data was given,
\* BatcherException when it was, the cache unchanged in both cases
C13_WhenTSGiven ==
    [][ (ret'.op = "get_TS_batches" /\ MissingTS(self, ret'.arg))
            => /\ ret'.exc = (IF self._data_TS = None THEN "AttributeError"
                              ELSE "BatcherException")
               /\ self'._TS_batches = self._TS_batches ]_vars

\* the constructor has raised BatcherException
InitRaised ==
    /\ main_pc = "failed"
    /\ ret.op = "__init__"
    /\ ret.exc = "BatcherException"

\* C14: a constructor call of any batcher with a batching_type outside
\* BATCHING_TYPES raises BatcherException before the first chunk is asked
\* of load_data_TR_chunk(): the object has no index map, no keys and no
\* training data, and a chunk a loader builds is never taken.
C14_UnknownBatchingTypeRaises ==
    /\ [](args.batching_type \notin BATCHING_TYPES(args.module)
            => /\ InitRaised
               /\ DOMAIN self \cap {"_ixmap", "_keys", "_data_TR", "_data_TR_len"} = {})
    /\ [][(args.batching_type \notin BATCHING_TYPES(args.module))
            => /\ "_data_chunks" \in DOMAIN self
                    => Len(self'._data_chunks) >= Len(self._data_chunks)
               /\ "ompr" \in DOMAIN self
                    => Len(self'.ompr.results) >= Len(self.ompr.results)]_vars

\* the constructor of a FilesBatcher has raised for its batching_type, and
\* the chunk its loader built lies there untaken
C14_Witness ==
    /\ args.cls = "FilesBatcher"
    /\ args.batching_type \notin BATCHING_TYPES(args.module)
    /\ args.data_files # << >>
    /\ InitRaised
    /\ Len(self._data_chunks) = 1

\* C15: a constructor call of FilesBatcher or FilesBatcherMP with an empty
\* data_files raises BatcherException with no loader thread started, no
\* worker pool made and no 'load' or task issued, and none comes later.
C15_EmptyFilesRaises ==
    (args.cls \in {"FilesBatcher", "FilesBatcherMP"} /\ args.data_files = << >>)
        => /\ InitRaised
           /\ loader.pc = "none"
           /\ DOMAIN self \cap {"q_to_loader", "_data_chunks", "ompr"} = {}

C15_Witness ==
    /\ args.cls = "FilesBatcherMP"
    /\ args.data_files = << >>
    /\ args.batching_type = "base"
    /\ InitRaised

\* C16: a DataBatcher call with split_factor > 0 and a data_TS that is not
\* None raises BatcherException with nothing split (the object holds no
\* training data and no held-out data); with split_factor = 0 the batcher
\* holds the data_TR given, whole, and the data_TS given (an unnamed set
\* under the default name).
C16_SplitAndDataTS ==
    args.cls = "DataBatcher" =>
        /\ (args.split_factor.num > 0 /\ args.data_TS # None)
            => /\ InitRaised
               /\ DOMAIN self \cap {"_data_TR_chunk", "_data_TS", "_data_TR"} = {}
        /\ (args.split_factor.num = 0 /\ main_pc = "idle")
            => /\ self._data_TR_chunk = args.data_TR
               /\ self._data_TR = args.data_TR
               /\ self._data_TS =
                    (IF args.data_TS = None THEN None
                     ELSE IF args.data_TS[1].named THEN Some(args.data_TS[1].d)
                     ELSE Some([n \in {default_TS_name} |-> args.data_TS[1].d]))

C16_Witness ==
    /\ args.cls = "DataBatcher"
    /\ args.split_factor = [num |-> 1, den |-> 2]
    /\ args.data_TS # None
    /\ args.batching_type = "base"
    /\ InitRaised

\* C17: with batching type 'base' on a DataBatcher over arrays of N samples
\* the samples delivered by the successive get_batch() calls, put together,
\* are the data in its order, again and again: sample i of the stream is
\* data[i mod N], on every axis and for every batch size.
C17_BaseInOrder ==
    (args.cls = "DataBatcher" /\ main_pc = "idle" /\ args.batching_type = "base"
     /\ IsArray)
        => LET N == DataLen(self._data_TR_chunk)
           IN  \A k \in DOMAIN self._data_TR_chunk :
                 LET st == Stream(k)
                 IN  \A i \in 1..Len(st) :
                        N > 0 /\ st[i] = self._data_TR_chunk[k][((i - 1) % N) + 1]

C17_Witness ==
    /\ args.cls = "DataBatcher" /\ main_pc = "idle" /\ IsArray
    /\ args.batching_type = "base"
    /\ DataLen(self._data_TR_chunk) = 3
    /\ self._batch_size = 2
    /\ n_resize = 0
    /\ Len(Stream("input")) = 8

\* no value twice in a sequence
NoRepeat(x) == \A i, j \in 1..Len(x) : i # j => x[i] # x[j]

\* C18: with batching type 'random' of comoneural every batch get_batch()
\* returns is a draw without replacement of batch_size samples of the
\* chunk: batch_size samples of the data, no sample twice, after any
\* get_batch() and set_batch_size() calls.
C18_RandomDrawsDistinct ==
    (args.cls = "DataBatcher" /\ args.module = "comoneural"
     /\ args.batching_type = "random" /\ ret.op = "get_batch" /\ ret.exc = "")
        => /\ NoRepeat(ret.val["input"])
           /\ Range(ret.val["input"]) \subseteq Range(self._data_TR_chunk["input"])
           /\ Len(ret.val["input"]) = self._batch_size

\* the batches of C18 as long as set_batch_size has not been called
C18_WithoutResize ==
    n_resize = 0 => C18_RandomDrawsDistinct

\* C19: a pull that refills and finds leftover indices while the chunks are
\* neither ndarray nor Tensor drops the leftover: the index map is the map
\* generated for the new chunk, the training data is the new chunk alone,
\* and the pull returns a batch, the first batch_size entries of that map,
\* without raising.
C19_LeftoverDropped ==
    [][ LET seeded == get_batch_seed(self)
            fresh == load_data_TR_chunk(seeded).data
            drawn == new_ixmap(seeded, DataLen(fresh))
        IN  (/\ self'.seed_counter = self.seed_counter + 1
             /\ needs_chunk(self) /\ ~IsArray
             /\ Len(ixmap_left(self)) > 0
             /\ drawn.exc = "")
            => /\ ret'.op = "get_batch" /\ ret'.exc = ""
               /\ self'._ixmap = drawn.x
               /\ self'._data_TR = fresh
               /\ self'._data_TR_len = DataLen(fresh)
               /\ self'._ixmap_pointer = self._batch_size
               /\ \A k \in DOMAIN fresh :
                    ret'.val[k] = Take(fresh[k], Slice(drawn.x, 0, self._batch_size))
      ]_vars

\* the second pull of 2 out of 3 samples has dropped the one left over
C19_Witness ==
    /\ main_pc = "idle"
    /\ args.cls = "DataBatcher" /\ ~IsArray
    /\ args.batching_type = "random_cov"
    /\ DataLen(self._data_TR_chunk) = 3
    /\ self._batch_size = 2 /\ n_resize = 0
    /\ ret.op = "get_batch" /\ ret.exc = ""
    /\ Len(out) = 2
    /\ Len(self._ixmap) = 3
    /\ self._ixmap_pointer = 2

\* the samples held out, over all held-out sets
HeldOut(s) ==
    IF s._data_TS = None \/ s._data_TS = Some(<< >>) THEN 0
    ELSE SumLens(s._data_TS[1], DOMAIN s._data_TS[1], "input")

\* C20: in every reachable state get_data_size() returns the number of
\* samples of the training chunk as load_data_TR_chunk() supplies it (for a
\* DataBatcher, the size of the training set) and the total number of
\* held-out samples, 0 when there are none.
C20_DataSize ==
    (ret.op = "get_data_size")
        => ret.val = <<DataLen(load_data_TR_chunk(self).data), HeldOut(self)>>

\* the part of C20 that holds: the second size is the number of held-out
\* samples, and the first is the size of the training data in use, which is
\* the chunk and the leftover samples put in front of it
C20_SizeOfDataInUse ==
    (ret.op = "get_data_size")
        => /\ ret.val[2] = HeldOut(self)
           /\ ret.val[1] = DataLen(self._data_TR)
           /\ ret.val[1] >= DataLen(load_data_TR_chunk(self).data)
           /\ (out = << >> \/ ~IsArray)
                => ret.val[1] = DataLen(load_data_TR_chunk(self).data)

\* the data_TR dict of the caller is the dict self._data_TR_chunk when no
\* split was asked for (a split builds two dicts of its own)
caller_data_TR(s) == s._data_TR_chunk

\* the data_TS dict of the caller: self._data_TS itself when its sets are
\* named, and the dict under default_TS_name when it is one set
caller_data_TS(s) ==
    IF args.data_TS[1].named THEN s._data_TS[1] ELSE s._data_TS[1][default_TS_name]

\* C21: the datasets handed to a DataBatcher are never modified: after any
\* get_batch(), get_TS_batches() and set_batch_size() calls the data_TR and
\* the data_TS of the caller have the axes, sample counts and contents they
\* had at construction.
C21_CallerDataUnchanged ==
    (main_pc = "idle" /\ args.cls = "DataBatcher")
        => /\ args.split_factor.num = 0 => caller_data_TR(self) = args.data_TR
           /\ args.data_TS # None => caller_data_TS(self) = args.data_TS[1].d

\* leftover samples were concatenated with the chunk of a DataBatcher that
\* was given held-out data, which has been split into batches
C21_Witness ==
    /\ main_pc = "idle" /\ args.cls = "DataBatcher" /\ IsArray
    /\ args.split_factor.num = 0 /\ args.data_TS # None
    /\ ret.op = "get_batch" /\ ret.exc = ""
    /\ DataLen(self._data_TR) > DataLen(args.data_TR)
    /\ self._TS_batches # << >>

\* C22: in every reachable state the seed counter is the initial seed plus
\* the number of get_batch() calls started: every get_batch() moves it on
\* by 1, whether or not a chunk is fetched and whether or not it raises, and
\* construction, get_TS_batches, set_batch_size and get_data_size leave it.
C22_SeedCounter ==
    "seed_counter" \in DOMAIN self
        => self.seed_counter = args.seed + n_get_batch

\* pulls with and without a fetch, a set_batch_size call and a last call
\* other than get_batch have been made
C22_Witness ==
    /\ main_pc = "idle"
    /\ n_get_batch = 3 /\ n_resize = 1
    /\ DataLen(self._data_TR) > DataLen(self._data_TR_chunk)
    /\ self._ixmap_pointer + self._batch_size <= Len(self._ixmap)
    /\ ret.op \in {"get_TS_batches", "get_data_size"}
    /\ self.seed_counter = args.seed + 3

\* every entry of the index map is an index into the training data
ValidIxmap(s) ==
    /\ s._data_TR_len = DataLen(s._data_TR)
    /\ \A j \in 1..Len(s._ixmap) : 0 <= s._ixmap[j] /\ s._ixmap[j] < s._data_TR_len

\* C23: in every reachable state every entry of the index map is a valid
\* index into the current training data, also after a refill that puts
\* leftover samples in front of the new chunk, so that get_batch() never
\* indexes out of range; a refill sets the pointer to 0 and every
\* get_batch() that returns moves it on by exactly batch_size.
C23_IxmapValid ==
    /\ [](main_pc = "idle" => ValidIxmap(self))
    /\ [][ (n_get_batch' = n_get_batch + 1 /\ ret'.exc = "")
             => /\ ret'.op = "get_batch"
                /\ self'._ixmap_pointer =
                       (IF needs_chunk(self) THEN 0 ELSE self._ixmap_pointer)
                       + self._batch_size
                /\ \A k \in DOMAIN ret'.val :
                       Len(ret'.val[k]) <= self._batch_size
          ]_vars

\* a pull has just put leftover samples in front of a new chunk and drawn
\* its batch from both
C23_Witness ==
    /\ main_pc = "idle" /\ IsArray
    /\ ret.op = "get_batch" /\ ret.exc = ""
    /\ args.batching_type = "random"
    /\ DataLen(self._data_TR) = DataLen(self._data_TR_chunk) + 1
    /\ Len(self._ixmap) > 1
    /\ self._ixmap[Len(self._ixmap)] > 0
    /\ self._ixmap_pointer = self._batch_size
    /\ self._batch_size = 2

\* the loader thread of a FilesBatcher is there and has not ended
LoaderRunning == loader.pc \in {"get", "build"}

\* C24: whenever the constructor of a FilesBatcher raises BatcherException,
\* for an empty data_files or for an unknown batching_type, no loader thread
\* is left running, and no chunk has been loaded or is loaded later.
C24_FailedInitLeavesNoLoader ==
    (args.cls = "FilesBatcher" /\ InitRaised)
        => /\ ~LoaderRunning
           /\ "_data_chunks" \in DOMAIN self => self._data_chunks = << >>

\* the part of C24 that holds: after the raise for an empty data_files
\* there is no thread, no queue and no list of chunks
C24_OnEmptyFiles ==
    (args.cls = "FilesBatcher" /\ InitRaised /\ args.data_files = << >>)
        => /\ loader.pc = "none"
           /\ DOMAIN self \cap {"q_to_loader", "_data_chunks"} = {}

\* after the raise for an unknown batching_type the thread started before
\* the base constructor ran loads one chunk and waits for a message for ever
C24_LoaderLeftWaiting ==
    (args.cls = "FilesBatcher" /\ InitRaised /\ args.data_files # << >>)
        => /\ loader.pc # "exited"
           /\ loader.pc = "get" /\ self.q_to_loader = << >>
                => Len(self._data_chunks) = 1

\* the list l with its first r entries moved to its end
Rotated(l, r) == [j \in 1..Len(l) |-> l[((j - 1 + r) % Len(l)) + 1]]

\* file number i mod n of the original data_files, i counted from 0
FileOfChunk(i) == args.data_files[(i % Len(args.data_files)) + 1]

\* the loads the loader thread has started: the chunks taken, those waiting
\* and the one chunk_builder is at, or was at when it raised
LoadsStarted ==
    n_taken + Len(self._data_chunks)
            + (IF loader.pc \in {"build", "crashed"} THEN 1 ELSE 0)

CutBy(batches, held, sz) ==
    /\ \A k \in DOMAIN held :
          Flatten([i \in 1..Len(batches) |-> batches[i][k]]) = held[k]
    /\ \A i \in 1..Len(batches) : \A k \in DOMAIN held :
          /\ Len(batches[i][k]) >= 1
          /\ i < Len(batches) => Len(batches[i][k]) = sz

\* C26: in comoneural/batcher.py set_batch_size(bs) empties the cache of
\* held-out batches, so that every get_TS_batches(name) call after it
\* returns batches of bs * batch_size_TS_mul samples and never batches split
\* with an earlier batch size; it leaves the index map, its pointer and the
\* seed counter as they were.
C26_ResizeClearsCache ==
    /\ []((main_pc = "idle" /\ self.module = "comoneural")
            => \A n \in DOMAIN self._TS_batches :
                  CutBy(self._TS_batches[n], self._data_TS[1][n],
                        self._batch_size * self._batch_size_TS_mul))
    /\ [][ n_resize' = n_resize + 1
             => /\ ret'.op = "set_batch_size"
                /\ self'._TS_batches = << >>
                /\ self'._batch_size = ret'.arg[1]
                /\ self'._ixmap = self._ixmap
                /\ self'._ixmap_pointer = self._ixmap_pointer
                /\ self'.seed_counter = self.seed_counter
                /\ self'.rng = self.rng
                /\ self'._data_TR = self._data_TR
          ]_vars
    /\ [][ (n_resize = 1 /\ ret'.op = "get_TS_batches" /\ ret'.exc = "")
             => CutBy(ret'.val, self._data_TS[1][NameOf(ret'.arg)],
                      self._batch_size * self._batch_size_TS_mul)
          ]_vars

\* after set_batch_size(2) on a batcher built with batch_size 1 the set of
\* 3 samples comes back as one batch, split anew
C26_Witness ==
    /\ main_pc = "idle" /\ self.module = "comoneural"
    /\ n_resize = 1 /\ args.batch_size = 1 /\ self._batch_size = 2
    /\ ret.op = "get_TS_batches" /\ ret.exc = ""
    /\ ret.arg = Some("test_A") /\ ret.split = Some("test_A")
    /\ Len(ret.val) = 1
    /\ Len(ret.val[1]["input"]) = 3
    /\ Len(out) > 0

-----------------------------------------------------------------------------
(* ZeroesProcessor (comoneural/zeroes_processor.py).  The object is self,   *)
(* the constructor call is args, and ret is what the last process call      *)
(* returned and what it wrote to the writer.  A zeroes tensor is a sequence *)
(* of 0 and 1, one entry per neuron (1: not activated); a number computed   *)
(* by a mean is kept as the ratio num/den.                                  *)

ZWidth == 2          \* neurons of a zeroes tensor
MaxInterval == 3     \* intervals: 1..MaxInterval
MaxCalls == 4        \* process calls given zeroes, on one ZeroesProcessor

Ratio(n, d) == [num |-> n, den |-> d]

RECURSIVE SumSeq(_)
SumSeq(x) == IF x = << >> THEN 0 ELSE Head(x) + SumSeq(Tail(x))

\* torch.mean(zeroes, dtype=torch.float32) of a tensor of one dimension
mean(z) == Ratio(SumSeq(z), Len(z))

\* torch.Tensor(single).mean(): the mean of means that share a denominator
mean_of_means(single) ==
    Ratio(SumSeq([i \in 1..Len(single) |-> single[i].num]),
          single[1].den * Len(single))

\* as nane, a neuron counted when its mean over the stack is above 0
nane_any(buf) ==
    LET width == Len(buf[1])
        mean0 == [j \in 1..width |->
                    Ratio(SumSeq([i \in 1..Len(buf) |-> buf[i][j]]), Len(buf))]
        clipped == [j \in 1..width |-> IF mean0[j].num > 0 THEN 1 ELSE 0]
    IN  mean(clipped)

\* torch.stack(buf, dim=0), the mean along axis 0, (mean == 1) and the mean
\* of that: the share of the neurons whose mean over the stack is 1
nane(buf) ==
    LET width == Len(buf[1])
        mean0 == [j \in 1..width |->
                    Ratio(SumSeq([i \in 1..Len(buf) |-> buf[i][j]]), Len(buf))]
        clipped == [j \in 1..width |-> IF mean0[j].num = mean0[j].den THEN 1 ELSE 0]
    IN  mean(clipped)

\* a dict that remembers the order its keys were put in: d[k] = v
OrdSet(od, k, v) ==
    [order |-> IF k \in DOMAIN od.d THEN od.order ELSE Append(od.order, k),
     d |-> DictSet(od.d, k, v)]

\* the keys of {k: [] for k in intervals}, in the order of the dict
RECURSIVE DictKeys(_)
DictKeys(intervals) ==
    IF intervals = << >> THEN << >>
    ELSE LET front == DictKeys(SubSeq(intervals, 1, Len(intervals) - 1))
             last == intervals[Len(intervals)]
         IN  IF last \in Range(front) THEN front ELSE Append(front, last)

\* ZeroesProcessor.__init__; tbwr is None or Some(the writer)
ZeroesProcessor_init(a) ==
    [cls |-> "ZeroesProcessor",
     intervals |-> a.intervals,
     zsDL |-> [k \in Range(a.intervals) |-> << >>],
     single |-> << >>,
     tag_pfx |-> a.tag_pfx,
     tbwr |-> a.tbwr,
     step |-> 0]

\* as interval_passed, the interval taken for passed one call late
interval_passed_late(buf, k) == Len(buf) = k + 1

\* process: len(self.zsDL[k]) == k
interval_passed(buf, k) == Len(buf) = k

\* process: the loop over the intervals, from the keys ks on
RECURSIVE process_intervals(_, _, _, _)
process_intervals(zsDL, iv_nane, ks, zeroes) ==
    IF ks = << >> THEN [zsDL |-> zsDL, iv_nane |-> iv_nane]
    ELSE LET k == Head(ks)
             buf == Append(zsDL[k], zeroes)
         IN  IF interval_passed(buf, k)
             THEN process_intervals([zsDL EXCEPT ![k] = << >>],
                                    OrdSet(iv_nane, k, nane(buf)), Tail(ks), zeroes)
             ELSE process_intervals([zsDL EXCEPT ![k] = buf], iv_nane, Tail(ks), zeroes)

\* as tbwr_adds, the step counter of the object written whatever step is given
tbwr_adds_own_step(s, iv_nane, step) ==
    IF s.tbwr = None THEN << >>
    ELSE [i \in 1..Len(iv_nane.order) |->
            [value |-> iv_nane.d[iv_nane.order[i]],
             tag |-> <<s.tag_pfx, "/nane_", iv_nane.order[i]>>,
             step |-> s.step]]

\* process: the tbwr.add calls made for the dict iv_nane
tbwr_adds(s, iv_nane, step) ==
    IF s.tbwr = None THEN << >>
    ELSE [i \in 1..Len(iv_nane.order) |->
            [value |-> iv_nane.d[iv_nane.order[i]],
             tag |-> <<s.tag_pfx, "/nane_", iv_nane.order[i]>>,
             step |-> step]]

\* as zeroes_given, an empty list taken for a tensor of no neurons
zeroes_given_always(zeroes) == TRUE

\* process: zeroes is a tensor or a list that is not empty
zeroes_given(zeroes) == ~(zeroes.list /\ zeroes.ts = << >>)

\* process(zeroes, step); zeroes is [list |-> FALSE, t |-> a tensor] or
\* [list |-> TRUE, ts |-> a list of tensors], step is None or Some(a number).
\* The result: the object, the dict returned and the tbwr.add calls made
process(s, zeroes, step) ==
    LET step_used == IF step = None THEN s.step ELSE step[1]
    IN  IF ~zeroes_given(zeroes)
        THEN [s |-> s, val |-> << >>, added |-> << >>]
        ELSE LET z == IF zeroes.list THEN Flatten(zeroes.ts) ELSE zeroes.t
                 single == Append(s.single, mean(z))
                 hit == Len(single) = s.intervals[1]
                 iv0 == IF hit
                        THEN OrdSet([order |-> << >>, d |-> << >>], 1, mean_of_means(single))
                        ELSE [order |-> << >>, d |-> << >>]
                 looped == process_intervals(s.zsDL, iv0, DictKeys(s.intervals), z)
             IN  [s |-> [s EXCEPT !.single = IF hit THEN << >> ELSE single,
                                  !.zsDL = looped.zsDL,
                                  !.step = @ + 1],
                  val |-> looped.iv_nane.d,
                  added |-> tbwr_adds(s, looped.iv_nane, step_used)]

\* the constructor calls: one or two intervals, with and without a writer
ZeroesProcessorArgs ==
    { [cls |-> "ZeroesProcessor", intervals |-> iv, tag_pfx |-> "nane", tbwr |-> w] :
        iv \in { <<a>> : a \in 1..MaxInterval }
                \cup { <<a, b>> : a \in 1..MaxInterval, b \in 1..MaxInterval },
        w \in {None, Some("TBwr")} }

ZVectors == [1..ZWidth -> {0, 1}]

\* the zeroes given to process: a tensor, an empty list, a list of two
\* tensors (of the layers of a network of ZWidth neurons: all not
\* activated, or those of the first layer only)
ZeroesInputs ==
    { [list |-> FALSE, t |-> v] : v \in ZVectors }
    \cup { [list |-> TRUE, ts |-> << >>] }
    \cup { [list |-> TRUE, ts |-> << <<1>>, [j \in 1..(ZWidth - 1) |-> x] >>] : x \in {0, 1} }

StepInputs == {None, Some(7)}

InitZeroes ==
    /\ args \in ZeroesProcessorArgs
    /\ self = ZeroesProcessor_init(args)
    /\ main_pc = "idle"
    /\ ret = [op |-> "__init__", zeroes |-> None, step |-> None, val |-> None,
              added |-> << >>]
    /\ NoHistory
    /\ loader = [pc |-> "none", file |-> 0]

Process(zeroes, step) ==
    /\ n_process < MaxCalls
    /\ n_process' = IF zeroes.list /\ zeroes.ts = << >> THEN n_process
                                                        ELSE n_process + 1
    /\ \E r \in {process(self, zeroes, step)} :
          /\ self' = r.s
          /\ ret' = [op |-> "process", zeroes |-> zeroes, step |-> step,
                     val |-> r.val, added |-> r.added]
    /\ UNCHANGED <<args, main_pc, out, prev_out, np_random_state, n_built, n_resize,
                   n_get_batch, n_taken, loader>>

NextZeroes == \E zeroes \in ZeroesInputs, step \in StepInputs : Process(zeroes, step)

SpecZeroes == InitZeroes /\ [][NextZeroes]_vars

\* C27: process emits a value for interval k exactly on every k-th call
\* given zeroes, counted per interval: the dict returned holds key k iff the
\* buffer of k reached k entries in this call, the buffer is then emptied,
\* between calls the buffer of every interval k holds fewer than k entries,
\* and the dict is empty when no interval passes.
C27_EveryKthCall ==
    /\ [](args.cls = "ZeroesProcessor"
            => \A k \in DOMAIN self.zsDL :
                  /\ Len(self.zsDL[k]) < k
                  /\ Len(self.zsDL[k]) = n_process % k)
    /\ [][ n_process' = n_process + 1
             => /\ \A k \in Range(args.intervals) :
                      /\ k \in DOMAIN ret'.val <=> n_process' % k = 0
                      /\ k \in DOMAIN ret'.val <=> Len(self.zsDL[k]) + 1 = k
                      /\ k \in DOMAIN ret'.val => self'.zsDL[k] = << >>
                      /\ k \notin DOMAIN ret'.val
                            => self'.zsDL[k] =
                                 Append(self.zsDL[k],
                                        IF ret'.zeroes.list THEN Flatten(ret'.zeroes.ts)
                                        ELSE ret'.zeroes.t)
                /\ (\A k \in Range(args.intervals) : n_process' % k # 0)
                      => ret'.val = << >>
          ]_vars

\* the fourth call given zeroes to a processor of the intervals (2, 3): the
\* interval of 2 has passed a second time, the interval of 3 is one call on
C27_Witness ==
    /\ args.cls = "ZeroesProcessor" /\ args.intervals = <<2, 3>>
    /\ ret.op = "process" /\ n_process = 4
    /\ 2 \in DOMAIN ret.val /\ 3 \notin DOMAIN ret.val
    /\ self.zsDL[2] = << >> /\ Len(self.zsDL[3]) = 1

\* the zeroes of a call given zeroes, as one tensor
CatOf(zeroes) == IF zeroes.list THEN Flatten(zeroes.ts) ELSE zeroes.t

\* the buffer of the per-call means is as long as that of intervals[0]
SingleWithFirstInterval ==
    args.cls = "ZeroesProcessor"
        => Len(self.single) = Len(self.zsDL[args.intervals[1]])

\* a call: key 1 is returned exactly when key intervals[0] is, and its
\* value is the mean of the per-call means
Key1WithFirstInterval ==
    /\ 1 \in DOMAIN ret'.val <=> args.intervals[1] \in DOMAIN ret'.val
    /\ 1 \in DOMAIN ret'.val
          => ret'.val[1] = mean_of_means(Append(self.single, mean(CatOf(ret'.zeroes))))

\* C28: the buffer of the per-call means (single) and the buffer of the
\* first interval always have the same length, so key 1 is returned on
\* exactly the calls on which key intervals[0] is returned, and the value
\* under key 1 is never overwritten by an interval value, for any tuple of
\* intervals.
C28_Key1NeverAnInterval ==
    /\ []SingleWithFirstInterval
    /\ [][n_process' = n_process + 1 => Key1WithFirstInterval]_vars

\* the part of C28 that holds: all of it for intervals without the interval
\* 1, and the equal lengths of the two buffers for every tuple
C28_WithoutIntervalOne ==
    /\ []SingleWithFirstInterval
    /\ [][(n_process' = n_process + 1 /\ 1 \notin Range(args.intervals))
            => Key1WithFirstInterval]_vars

\* with the interval 1 in front the value of the interval takes the place
\* of the mean of the per-call means under key 1, the two being equal for
\* one call of zeroes of 0 and 1
C28_IntervalOneInFront ==
    [][(n_process' = n_process + 1 /\ args.intervals[1] = 1)
            => /\ Key1WithFirstInterval
               /\ ret'.val[1] = nane(<<CatOf(ret'.zeroes)>>)]_vars

\* C29: process called with an empty list returns an empty dict and leaves
\* the whole state as it was: the step counter, the buffer of the per-call
\* means and the buffer of every interval, and nothing is written to the
\* writer.
C29_EmptyListNoEffect ==
    [][ (ret'.op = "process" /\ ret'.zeroes = [list |-> TRUE, ts |-> << >>])
            => /\ ret'.val = << >>
               /\ ret'.added = << >>
               /\ self' = self
      ]_vars

\* an empty list given to a processor with a writer, one call before both
\* of its intervals pass
C29_Witness ==
    /\ args.cls = "ZeroesProcessor" /\ args.intervals = <<2, 2>> /\ args.tbwr # None
    /\ ret.op = "process" /\ ret.zeroes = [list |-> TRUE, ts |-> << >>]
    /\ ret.step = None
    /\ Len(self.single) = 1 /\ Len(self.zsDL[2]) = 1
    /\ self.step = 3

\* C30: with a writer given, process writes exactly one value for every key
\* of the dict it returns and nothing when the dict is empty; the step
\* written is the step argument when one is given and otherwise the number
\* of earlier calls given zeroes; the step counter of the object grows by
\* exactly 1 on every call given zeroes, with or without a step argument.
C30_WriterAndStep ==
    /\ [](args.cls = "ZeroesProcessor" => self.step = n_process)
    /\ [][ /\ ret'.op = "process"
           /\ self'.step = self.step + (IF n_process' = n_process THEN 0 ELSE 1)
           /\ IF args.tbwr = None THEN ret'.added = << >>
              ELSE /\ Len(ret'.added) = Cardinality(DOMAIN ret'.val)
                   /\ \A k \in DOMAIN ret'.val :
                         \E i \in 1..Len(ret'.added) :
                            /\ ret'.added[i].tag = <<args.tag_pfx, "/nane_", k>>
                            /\ ret'.added[i].value = ret'.val[k]
                   /\ \A i \in 1..Len(ret'.added) :
                         ret'.added[i].step = IF ret'.step = None THEN n_process
                                              ELSE ret'.step[1]
         ]_vars

\* the second call given zeroes to a processor of the intervals (2, 3) with
\* a writer, made with a step: two values written at that step
C30_Witness ==
    /\ args.cls = "ZeroesProcessor" /\ args.intervals = <<2, 3>> /\ args.tbwr # None
    /\ ret.op = "process" /\ ret.step = Some(7)
    /\ n_process = 2 /\ self.step = 2
    /\ DOMAIN ret.val = {1, 2}
    /\ Len(ret.added) = 2
    /\ ret.added[1].step = 7 /\ ret.added[2].step = 7

\* a call without a step: the value is written at the number of calls
\* given zeroes made before
C30_WitnessOwnStep ==
    /\ args.cls = "ZeroesProcessor" /\ args.intervals = <<3>> /\ args.tbwr # None
    /\ ret.op = "process" /\ ret.step = None
    /\ n_process = 3
    /\ Len(ret.added) = 2 /\ ret.added[2].step = 2

\* the neurons that were not activated in any of the zeroes tensors of buf
NeverActivated(buf) ==
    { j \in 1..ZWidth : \A i \in 1..Len(buf) : buf[i][j] = 1 }

\* C31: the value process returns for interval k is the share of the
\* neurons that were not activated in all of the k inputs accumulated: a
\* neuron counts iff its entry was 1 in every one of the last k zeroes
\* tensors, and does not count when it was 0 in at least one of them.
C31_ShareNeverActivated ==
    [][ n_process' = n_process + 1
          => \A k \in Range(args.intervals) :
                k \in DOMAIN ret'.val
                  => LET last_k == Append(self.zsDL[k], CatOf(ret'.zeroes))
                     IN  /\ Len(last_k) = k
                         /\ ret'.val[k] = Ratio(Cardinality(NeverActivated(last_k)), ZWidth)
      ]_vars

\* interval 2 has passed with a neuron that was 1 in both inputs and a
\* neuron that was 1 in the first input only: one of two neurons counts
C31_Witness ==
    /\ args.cls = "ZeroesProcessor" /\ args.intervals = <<3, 2>>
    /\ ret.op = "process" /\ n_process = 2
    /\ ret.zeroes = [list |-> FALSE, t |-> [j \in 1..ZWidth |-> IF j = 1 THEN 1 ELSE 0]]
    /\ 2 \in DOMAIN ret.val
    /\ ret.val[2] = Ratio(1, ZWidth)
    /\ self.single[1] = Ratio(ZWidth, ZWidth)

-----------------------------------------------------------------------------
(* torchness/grad_clipping.py: clip_grad_norm_ *)

MaxParams == 2       \* parameters handed to clip_grad_norm_: 0..MaxParams
MaxClips == 3        \* clip() calls made on one GradClipperMAVG
EpsDen == 1000000    \* 1e-6 == 1 / EpsDen

\* Numbers are exact fractions num/den in lowest terms with den > 0.
RECURSIVE GCD(_, _)
GCD(a, b) == IF b = 0 THEN a ELSE GCD(b, a % b)

Abs(x) == IF x < 0 THEN 0 - x ELSE x

Reduced(n, d) ==
    LET g == GCD(Abs(n), Abs(d))
        s == IF d < 0 THEN 0 - 1 ELSE 1
    IN  Ratio(s * (n \div g), s * (d \div g))

Q(n) == Ratio(n, 1)
RAdd(a, b) == Reduced(a.num * b.den + b.num * a.den, a.den * b.den)
RMul(a, b) == Reduced(a.num * b.num, a.den * b.den)
RDiv(a, b) == Reduced(a.num * b.den, a.den * b.num)
RLess(a, b) == a.num * b.den < b.num * a.den
RLeq(a, b) == a.num * b.den <= b.num * a.den
RMin(a, b) == IF RLess(b, a) THEN b ELSE a
RAbs(a) == Ratio(Abs(a.num), a.den)

\* the sum of f over the finite set S of its domain
RECURSIVE SumOver(_, _)
SumOver(f, S) ==
    IF S = {} THEN 0
    ELSE LET x == CHOOSE y \in S : TRUE IN f[x] + SumOver(f, S \ {x})

\* the square root, on the numbers that have a whole one
IsSquare(n) == \E r \in 0..n : r * r = n
Sqrt(n) == CHOOSE r \in 0..n : r * r = n

\* torch.norm(t, norm_type) of whole numbers t, for norm_type 1.0 and 2.0
norm(t, norm_type) ==
    IF norm_type = "1.0"
    THEN SumOver([i \in DOMAIN t |-> Abs(t[i])], DOMAIN t)
    ELSE Sqrt(SumOver([i \in DOMAIN t |-> t[i] * t[i]], DOMAIN t))

\* t.abs().max() / torch.max(torch.stack(t))
abs_max(t) == CHOOSE m \in {Abs(t[i]) : i \in DOMAIN t} : \A i \in DOMAIN t : Abs(t[i]) <= m

\* torch.clamp(x, max=m)
clamp_max(x, m) == RMin(x, m)

\* t.mul_(c): every element of the gradient times c, in place
mul_(t, c) == [i \in DOMAIN t |-> RMul(t[i], c)]

\* the norms of the gradients held, then the norm of these norms
total_norm_of(grads, norm_type) ==
    LET held == {i \in DOMAIN grads : grads[i] # None}
        whole == [i \in held |-> [j \in DOMAIN grads[i][1] |-> grads[i][1][j].num]]
        norms == [i \in held |-> IF norm_type = "inf" THEN abs_max(whole[i])
                                                      ELSE norm(whole[i], norm_type)]
    IN  IF norm_type = "inf" THEN abs_max(norms) ELSE norm(norms, norm_type)

\* clip_grad_norm_(parameters, max_norm, norm_type, do_clip): the value
\* returned, the gradients of the parameters afterwards, the coefficient
\* they were multiplied by (None when nothing was multiplied)
clip_grad_norm_(parameters, max_norm, norm_type, do_clip) ==
    LET grads == IF parameters.tensor THEN << parameters.grads[1] >> ELSE parameters.grads
        held == {i \in DOMAIN grads : grads[i] # None}
        total_norm == Q(total_norm_of(grads, norm_type))
        clip_coef == RDiv(max_norm, RAdd(total_norm, Ratio(1, EpsDen)))
        clip_coef_clamped == clamp_max(clip_coef, Q(1))
    IN  IF held = {}
        THEN [val |-> Q(0), grads |-> grads, coef |-> None]
        ELSE IF do_clip
        THEN [val |-> total_norm,
              grads |-> [i \in DOMAIN grads |->
                            IF i \in held THEN Some(mul_(grads[i][1], clip_coef_clamped))
                                          ELSE None],
              coef |-> Some(clip_coef_clamped)]
        ELSE [val |-> total_norm, grads |-> grads, coef |-> None]

\* gradients a parameter can hold: None, or a tensor of whole numbers
GradTensors == { << Q(0) >>, << Q(1) >>, << Q(3) >>, << Q(0 - 4) >>, << Q(3), Q(0 - 4) >>, << Q(4), Q(0) >> }
GradInputs == {None} \cup {Some(t) : t \in GradTensors}

\* lists of up to MaxParams parameters, or one Tensor in place of a list
ParameterInputs ==
    {[tensor |-> FALSE, grads |-> g] :
        g \in UNION {[1..n -> GradInputs] : n \in 0..MaxParams}}
    \cup {[tensor |-> TRUE, grads |-> << g >>] : g \in GradInputs}

NormTypes == {"1.0", "2.0", "inf"}
MaxNormInputs == {Q(0 - 2), Q(0), Q(2), Q(5), Q(6), Ratio(9, 2)}

\* the calls whose norms have a whole square root
ClipGradNormArgs ==
    {a \in [cls : {"clip_grad_norm_"}, parameters : ParameterInputs,
            max_norm : MaxNormInputs, norm_type : NormTypes, do_clip : BOOLEAN] :
        a.norm_type = "2.0" =>
            LET held == {i \in DOMAIN a.parameters.grads : a.parameters.grads[i] # None}
                sq(i) == SumOver([j \in DOMAIN a.parameters.grads[i][1] |->
                                     a.parameters.grads[i][1][j].num * a.parameters.grads[i][1][j].num],
                                 DOMAIN a.parameters.grads[i][1])
            IN  IsSquare(SumOver([i \in held |-> sq(i)], held))}

InitClipGradNorm ==
    /\ args \in ClipGradNormArgs
    /\ self = [cls |-> "parameters", grads |-> args.parameters.grads]
    /\ main_pc = "idle"
    /\ ret = [op |-> "none", val |-> None, coef |-> None]
    /\ NoHistory
    /\ loader = [pc |-> "none", file |-> 0]

\* one call of clip_grad_norm_ on the parameters, with the arguments drawn
ClipGradNorm ==
    /\ ret.op = "none"
    /\ \E r \in {clip_grad_norm_(args.parameters, args.max_norm, args.norm_type, args.do_clip)} :
          /\ self' = [self EXCEPT !.grads = r.grads]
          /\ ret' = [op |-> "clip_grad_norm_", val |-> r.val, coef |-> r.coef]
    /\ UNCHANGED <<args, main_pc, out, prev_out, np_random_state, n_built, n_resize,
                   n_get_batch, n_taken, n_process, loader>>

NextClipGradNorm == ClipGradNorm

SpecClipGradNorm == InitClipGradNorm /\ [][NextClipGradNorm]_vars

\* the gradients of the parameters as the call found them
GradsBefore == IF args.parameters.tensor THEN << args.parameters.grads[1] >>
                                         ELSE args.parameters.grads

HeldBefore == {i \in DOMAIN GradsBefore : GradsBefore[i] # None}

\* every gradient held is its old value times c, and no gradient appeared
ScaledBy(c) ==
    /\ DOMAIN self.grads = DOMAIN GradsBefore
    /\ \A i \in DOMAIN GradsBefore :
          IF i \in HeldBefore
          THEN /\ self.grads[i] # None
               /\ DOMAIN self.grads[i][1] = DOMAIN GradsBefore[i][1]
               /\ \A j \in DOMAIN GradsBefore[i][1] :
                     self.grads[i][1][j] = RMul(GradsBefore[i][1][j], c)
          ELSE self.grads[i] = None

\* no element of a gradient grew in magnitude
NotScaledUp ==
    \A i \in HeldBefore : \A j \in DOMAIN GradsBefore[i][1] :
        RLeq(RAbs(self.grads[i][1][j]), RAbs(GradsBefore[i][1][j]))

\* C33: clip_grad_norm_ returns the norm of the gradients as they were before
\* the call; with do_clip=False every gradient is left unchanged; with no
\* parameter holding a gradient it returns 0.0 and changes nothing; with
\* do_clip=True all gradients are multiplied by one coefficient that is at
\* most 1, and no gradient is scaled up.
C33_ClipGradNorm ==
    (args.cls = "clip_grad_norm_" /\ ret.op = "clip_grad_norm_") =>
        /\ HeldBefore = {} => (ret.val = Q(0) /\ self.grads = GradsBefore /\ ret.coef = None)
        /\ HeldBefore # {} => ret.val = Q(total_norm_of(GradsBefore, args.norm_type))
        /\ ~args.do_clip => (self.grads = GradsBefore /\ ret.coef = None)
        /\ (args.do_clip /\ HeldBefore # {}) =>
              /\ ret.coef # None
              /\ RLeq(ret.coef[1], Q(1))
              /\ ScaledBy(ret.coef[1])
              /\ NotScaledUp

\* what holds of C33: all of it but the last part, for every max_norm, and
\* the last part too for a max_norm that is not negative
C33_WithMaxNormNotNegative ==
    (args.cls = "clip_grad_norm_" /\ ret.op = "clip_grad_norm_") =>
        /\ HeldBefore = {} => (ret.val = Q(0) /\ self.grads = GradsBefore /\ ret.coef = None)
        /\ HeldBefore # {} => ret.val = Q(total_norm_of(GradsBefore, args.norm_type))
        /\ ~args.do_clip => (self.grads = GradsBefore /\ ret.coef = None)
        /\ (args.do_clip /\ HeldBefore # {}) =>
              /\ ret.coef # None
              /\ RLeq(ret.coef[1], Q(1))
              /\ ScaledBy(ret.coef[1])
              /\ RLeq(Q(0), args.max_norm) => NotScaledUp

\* two gradients of total norm 5 clipped to max_norm 2: both were multiplied
\* by 2 / (5 + 1e-6), so that 3 became 6000000/5000001 = 2000000/1666667,
\* and 5 was returned
C33_ClippedToTwo ==
    /\ args.cls = "clip_grad_norm_" /\ ret.op = "clip_grad_norm_"
    /\ args.do_clip /\ args.norm_type = "2.0" /\ args.max_norm = Q(2)
    /\ args.parameters = [tensor |-> FALSE, grads |-> << Some(<< Q(3) >>), Some(<< Q(0 - 4) >>) >>]
    /\ ret.val = Q(5)
    /\ ret.coef = Some(Ratio(2 * EpsDen, 5 * EpsDen + 1))
    /\ self.grads = << Some(<< Ratio(2 * EpsDen, 1666667) >>),
                       Some(<< Ratio(0 - 8 * EpsDen, 5 * EpsDen + 1) >>) >>

-----------------------------------------------------------------------------
(* torchness/grad_clipping.py: GradClipperMAVG *)

\* MovAvg(factor, first_avg) of pypaq.lipytools.moving_average: no value yet;
\* the first int(1/factor) updates are plain averages when first_avg
MovAvg(factor, first_avg) ==
    [value |-> None, factor |-> factor, upd_num |-> 0,
     firstN |-> IF first_avg THEN factor.den \div factor.num ELSE 0]

\* MovAvg.upd(val): the first value is taken as it is, a later one is
\* blended in with the factor
MovAvg_upd(m, val) ==
    LET factor == IF m.upd_num < m.firstN THEN Ratio(1, m.upd_num + 1) ELSE m.factor
        rest == Ratio(factor.den - factor.num, factor.den)
    IN  [m EXCEPT !.value = IF m.value = None THEN Some(val)
                            ELSE Some(RAdd(RMul(rest, m.value[1]), RMul(factor, val))),
                  !.upd_num = m.upd_num + 1]

\* GradClipperMAVG.gg_norm_clip: self.mavg()
gg_norm_clip(s) == s.mavg.value[1]

\* GradClipperMAVG.__init__
GradClipperMAVG_init(a) ==
    [cls |-> "GradClipperMAVG",
     grads |-> a.module,
     mavg |-> MovAvg_upd(MovAvg(a.factor, a.first_avg), a.start_val),
     max_clip |-> a.max_clip,
     max_upd |-> a.max_upd,
     do_clip |-> a.do_clip]

\* if self.max_clip and mavg_update > self.max_clip: None and 0 are falsy
max_clip_caps(s, mavg_update) ==
    /\ s.max_clip # None
    /\ s.max_clip[1].num # 0
    /\ RLess(s.max_clip[1], mavg_update)

\* GradClipperMAVG.clip(), called when the parameters of the module hold the
\* gradients grads: the instance afterwards and the dict returned
clip(s, grads) ==
    LET clip_now == gg_norm_clip(s)
        r == clip_grad_norm_([tensor |-> FALSE, grads |-> grads], clip_now, "2.0", s.do_clip)
        gg_norm == r.val
        mavg_update == RMin(gg_norm, RMul(clip_now, s.max_upd))
        capped == IF max_clip_caps(s, mavg_update) THEN s.max_clip[1] ELSE mavg_update
    IN  [s |-> [s EXCEPT !.grads = r.grads, !.mavg = MovAvg_upd(s.mavg, capped)],
         val |-> [gg_norm |-> gg_norm, gg_norm_clip |-> clip_now],
         coef |-> r.coef]

\* the gradients the parameters of the module hold after a backward pass:
\* none at all, or some of 2-norm 1, 3 and 5
ModuleGrads ==
    { << None, None >>,
      << Some(<< Q(1) >>), None >>,
      << Some(<< Q(0) >>), Some(<< Q(3) >>) >>,
      << Some(<< Q(3) >>), Some(<< Q(0 - 4) >>) >> }

GradClipperMAVGArgs ==
    [cls : {"GradClipperMAVG"},
     module : {<< None, None >>},
     start_val : {Q(1), Q(3)},
     factor : {Ratio(1, 2), Q(1)},
     first_avg : BOOLEAN,
     max_clip : {None, Some(Q(0)), Some(Q(2))},
     max_upd : {Ratio(3, 2)},
     do_clip : BOOLEAN]

InitClip ==
    /\ args \in GradClipperMAVGArgs
    /\ self = GradClipperMAVG_init(args)
    /\ main_pc = "idle"
    /\ ret = [op |-> "__init__", val |-> None, coef |-> None]
    /\ NoHistory
    /\ loader = [pc |-> "none", file |-> 0]

\* a backward pass left the gradients grads, then clip() is called
Clip(grads) ==
    /\ self.mavg.upd_num <= MaxClips
    /\ \E r \in {clip(self, grads)} :
          /\ self' = r.s
          /\ ret' = [op |-> "clip", val |-> Some(r.val), coef |-> r.coef]
    /\ UNCHANGED <<args, main_pc, out, prev_out, np_random_state, n_built, n_resize,
                   n_get_batch, n_taken, n_process, loader>>

NextClip == \E grads \in ModuleGrads : Clip(grads)

SpecClip == InitClip /\ [][NextClip]_vars

\* the value clip() is to feed the moving average with: min(gradient norm,
\* clip value * max_upd), capped at max_clip
FedByClip(s, gg_norm) ==
    LET m == RMin(gg_norm, RMul(gg_norm_clip(s), s.max_upd))
    IN  IF s.max_clip # None /\ RLess(s.max_clip[1], m) THEN s.max_clip[1] ELSE m

\* a clip() step feeds the moving average with FedByClip of the norm it
\* returns, and clips with and returns the moving average as it was before
ClipFeedsAndUses ==
    (ret'.op = "clip" /\ self'.mavg.upd_num = self.mavg.upd_num + 1) =>
        /\ ret'.val[1].gg_norm_clip = gg_norm_clip(self)
        /\ self'.mavg = MovAvg_upd(self.mavg, FedByClip(self, ret'.val[1].gg_norm))
        /\ (ret'.coef # None) =>
              ret'.coef[1] = RMin(RDiv(gg_norm_clip(self),
                                       RAdd(ret'.val[1].gg_norm, Ratio(1, EpsDen))), Q(1))

\* C32: with max_clip set, gg_norm_clip never exceeds max_clip, from
\* construction on, for every start_val and every sequence of clip() calls;
\* and each clip() feeds the moving average with min(gradient norm, clip
\* value * max_upd) capped at max_clip, with the moving average as it was
\* before the call as the clip threshold.
C32_NeverAboveMaxClip ==
    /\ []((args.cls = "GradClipperMAVG" /\ self.max_clip # None)
             => RLeq(gg_norm_clip(self), self.max_clip[1]))
    /\ [][args.cls = "GradClipperMAVG" => ClipFeedsAndUses]_vars

\* what holds of C32: the clip() part for a max_clip that is None or above 0,
\* and the bound for a max_clip above 0 that start_val does not exceed
C32_StartValWithinMaxClip ==
    /\ []((/\ args.cls = "GradClipperMAVG" /\ self.max_clip # None
           /\ RLess(Q(0), self.max_clip[1])
           /\ RLeq(args.start_val, self.max_clip[1]))
             => RLeq(gg_norm_clip(self), self.max_clip[1]))
    /\ [][(/\ args.cls = "GradClipperMAVG"
           /\ self.max_clip # None => RLess(Q(0), self.max_clip[1]))
             => ClipFeedsAndUses]_vars

\* a clipper of max_clip 2 and start_val 1, fed the norm 5 capped at 2
C32_CappedUpdate ==
    /\ args.cls = "GradClipperMAVG" /\ args.max_clip = Some(Q(2))
    /\ args.start_val = Q(1) /\ args.factor = Q(1) /\ ~args.first_avg
    /\ ret.op = "clip" /\ self.mavg.upd_num = 3
    /\ ret.val[1].gg_norm = Q(5)
    /\ ret.val[1].gg_norm_clip = Ratio(3, 2)
    /\ gg_norm_clip(self) = Q(2)

-----------------------------------------------------------------------------
(* torchness/layers.py: zeroes *)

MaxRows == 2         \* rows of a tensor of two dimensions: 1..MaxRows

\* what zeroes can be handed as inp: tensors of no, one and two dimensions
\* (the last one of ZWidth neurons), and what is not a tensor; the entries
\* are kept as rows whatever the number of dimensions
ZeroesValues == {0 - 1, 0, 1}

LayersZeroesInputs ==
    {[kind |-> "tensor", dims |-> 0, data |-> << << x >> >>] : x \in ZeroesValues}
    \cup {[kind |-> "tensor", dims |-> 1, data |-> << v >>] : v \in [1..ZWidth -> ZeroesValues]}
    \cup {[kind |-> "tensor", dims |-> 2, data |-> m] :
            m \in UNION {[1..n -> [1..ZWidth -> ZeroesValues]] : n \in 1..MaxRows}}
    \cup {[kind |-> k, dims |-> 1, data |-> << v >>] :
            k \in {"list", "ndarray"}, v \in {[j \in 1..ZWidth |-> 0]}}

\* (inp > 0).to(int): TypeError for a list, AttributeError for an ndarray
raised_by(inp) ==
    IF inp.kind = "list" THEN Some("TypeError")
    ELSE IF inp.kind = "ndarray" THEN Some("AttributeError")
    ELSE None

activated_of(x) == IF x > 0 THEN 1 ELSE 0

\* lines 199-202: 1 for a neuron that no entry along the other axes activated
zs_of(inp) ==
    IF inp.dims < 2
    THEN [j \in DOMAIN inp.data[1] |-> IF activated_of(inp.data[1][j]) = 0 THEN 1 ELSE 0]
    ELSE [j \in 1..ZWidth |->
            IF SumOver([i \in DOMAIN inp.data |-> activated_of(inp.data[i][j])],
                       DOMAIN inp.data) = 0 THEN 1 ELSE 0]

\* the mode set back after the computation (lines 204-205)
grad_restored(was_grad_enabled, during) == IF was_grad_enabled THEN TRUE ELSE during

\* zeroes(inp, no_grad) called with the global gradient mode grad_enabled:
\* the mode during the computation, the mode left, the exception or the value
layers_zeroes(inp, no_grad, grad_enabled) ==
    LET was_grad_enabled == no_grad /\ grad_enabled
        during == IF was_grad_enabled THEN FALSE ELSE grad_enabled
    IN  IF raised_by(inp) # None
        THEN [during |-> during, grad_enabled |-> during,
              exc |-> raised_by(inp), val |-> None]
        ELSE [during |-> during, grad_enabled |-> grad_restored(was_grad_enabled, during),
              exc |-> None, val |-> Some(zs_of(inp))]

InitLayersZeroes ==
    /\ args = [cls |-> "zeroes"]
    /\ self \in [cls : {"torch"}, grad_enabled : BOOLEAN]
    /\ main_pc = "idle"
    /\ ret = [op |-> "none", inp |-> None, no_grad |-> None, during |-> None,
              exc |-> None, val |-> None]
    /\ NoHistory
    /\ loader = [pc |-> "none", file |-> 0]

\* one call of zeroes(inp, no_grad), the caller catching what it raises
Zeroes(inp, no_grad) ==
    /\ \E r \in {layers_zeroes(inp, no_grad, self.grad_enabled)} :
          /\ self' = [self EXCEPT !.grad_enabled = r.grad_enabled]
          /\ ret' = [op |-> "zeroes", inp |-> Some(inp), no_grad |-> Some(no_grad),
                     during |-> Some(r.during), exc |-> r.exc, val |-> r.val]
    /\ UNCHANGED <<args, main_pc, out, prev_out, np_random_state, n_built, n_resize,
                   n_get_batch, n_taken, n_process, loader>>

NextLayersZeroes == \E inp \in LayersZeroesInputs, no_grad \in BOOLEAN : Zeroes(inp, no_grad)

SpecLayersZeroes == InitLayersZeroes /\ [][NextLayersZeroes]_vars

\* C34: zeroes(inp, no_grad=True) leaves the global gradient mode exactly as
\* it was before the call on every exit path, a raising computation included;
\* the mode is off during the call only if no_grad was given and it was on.
C34_GradModeRestored ==
    [][ (args.cls = "zeroes" /\ ret'.op = "zeroes") =>
            /\ self'.grad_enabled = self.grad_enabled
            /\ ret'.during[1] # self.grad_enabled
                  => (self.grad_enabled /\ ret'.no_grad[1] /\ ~ret'.during[1])
      ]_vars

\* what holds of C34: the mode is as before after every call that returns,
\* it is changed during the call only from on to off and only with no_grad,
\* and a call that raises leaves the mode it computed under
C34_RestoredOnReturn ==
    [][ (args.cls = "zeroes" /\ ret'.op = "zeroes") =>
            /\ ret'.exc = None => self'.grad_enabled = self.grad_enabled
            /\ ret'.exc # None => self'.grad_enabled = ret'.during[1]
            /\ ret'.during[1] # self.grad_enabled
                  => (self.grad_enabled /\ ret'.no_grad[1] /\ ~ret'.during[1])
            /\ (self.grad_enabled /\ ret'.no_grad[1]) => ~ret'.during[1]
      ]_vars

\* zeroes returned under no_grad and the mode is on, as it was
C34_ReturnedWithGradOn ==
    /\ args.cls = "zeroes" /\ ret.op = "zeroes"
    /\ ret.no_grad = Some(TRUE) /\ ret.during = Some(FALSE)
    /\ ret.exc = None /\ self.grad_enabled
    /\ ret.inp[1].dims = 2 /\ Len(ret.inp[1].data) = MaxRows
    /\ ret.val = Some([j \in 1..ZWidth |-> IF j = 1 THEN 0 ELSE 1])


====
